---- MODULE Spec2Model ----
(***************************************************************************)
(* A model of the in-memory Redis server of src/app: the keyspace          *)
(* (storage.store), the BLPOP queues (storage.queues), the XREAD BLOCK     *)
(* queues (storage.stream_queues), the command handlers of handlers.py and *)
(* the per-connection task of main.handle_connection.                      *)
(*                                                                         *)
(* One action is one stretch of handler code between two awaits: the event *)
(* loop is single threaded, so such a stretch runs atomically.  A blocked  *)
(* BLPOP or XREAD is a task waiting on an asyncio.Queue; the queue's       *)
(* put_nowait marks the head getter as woken and the task resumes later,   *)
(* in the order of the loop's ready queue.                                 *)
(*                                                                         *)
(* Python values are tagged so that the handlers' behaviour on a value of  *)
(* another shape (a tuple where a list is expected, an int where a str is  *)
(* expected) is the behaviour of the Python code, exceptions included.     *)
(***************************************************************************)
EXTENDS Integers, Sequences, FiniteSets, TLC

VARIABLES
    store,          \* storage.store: key -> entry
    queues,         \* storage.queues: key -> asyncio.Queue of the BLPOP waiters
    stream_queues,  \* storage.stream_queues: key -> the XREAD BLOCK queues
    stream_keys,    \* the keys storage.stream_queues has (a missing key has no queues)
    now,            \* time.time() * 1000, and the loop's clock
    pc,             \* where each connection's task stands
    blk,            \* the BLPOP call a connection is suspended in
    xrd,            \* the XREAD call a connection is suspended in
    ready,          \* the loop's ready queue: woken tasks, in wake order
    last,           \* the step taken last: connection, command, key, reply
    nextVal,        \* number of list values pushed so far (each is a fresh token)
    lastSet,        \* history: the most recent SET of each key
    ttlSeen,        \* history: the greatest absolute expiry a SET gave each key
    servedLog,      \* history: the values BLPOP took from a queue, in order
    callOrder,      \* history: the connections suspended in BLPOP, by call time
    sent            \* history: the commands without a handler each connection sent

vars == <<store, queues, stream_queues, stream_keys, now, pc, blk, xrd, ready, last,
          nextVal, lastSet, ttlSeen, servedLog, callOrder, sent>>

----------------------------------------------------------------------------
(* Bounds *)

MaxTime == 1        \* the clock runs 0..MaxTime
MaxPushed == 2      \* list values pushed in one run
MaxMs == 2          \* stream IDs use ms in 0..MaxMs
MaxSeq == 1         \* explicit stream IDs use seq in 0..MaxSeq
MaxStream == 2      \* entries appended to one stream
MaxSent == 4        \* commands without a handler one connection sends
MaxIndex == 3       \* LRANGE is asked with indices in -MaxIndex..MaxIndex
MaxText == 2        \* characters of an encoded string
MaxItems == 2       \* elements of an encoded array

Conns == {"c1", "c2", "c3"}
Keys == {"k1", "k2"}
Values == {"a", "b"}

None == 0 - 1       \* Python's None where an int is expected

\* The i-th value pushed to a list in a run.
Val(i) == "v" \o ToString(i)

----------------------------------------------------------------------------
(* Python values held in the store *)

PyStr(s) == [t |-> "str", s |-> s, ms |-> 0, seq |-> 0]
PyNone == [t |-> "none", s |-> "", ms |-> 0, seq |-> 0]
PyInt(n) == [t |-> "int", s |-> "", ms |-> n, seq |-> 0]
\* (ms, seq, fields): the fields dict is carried unchanged and left out
PyEntry(ms, seq) == [t |-> "entry", s |-> "", ms |-> ms, seq |-> seq]

Absent == [kind |-> "absent", elems |-> <<>>]
PyTuple(xs) == [kind |-> "tuple", elems |-> xs]
PyList(xs) == [kind |-> "list", elems |-> xs]

\* (value, expiry) as handle_set stores it
StringEntry(v, expiry) ==
    PyTuple(<<PyStr(v), IF expiry = None THEN PyNone ELSE PyInt(expiry)>>)

\* `not x` of Python: a missing key reads as [], every stored container is non-empty
Falsy(e) == e.kind = "absent" \/ e.elems = <<>>

Last(xs) == xs[Len(xs)]
Take(xs, n) == SubSeq(xs, 1, n)
Drop(xs, n) == SubSeq(xs, n + 1, Len(xs))
Min(a, b) == IF a < b THEN a ELSE b
Max(a, b) == IF a > b THEN a ELSE b
Reverse(xs) == [i \in 1..Len(xs) |-> xs[Len(xs) + 1 - i]]
Range(xs) == {xs[i] : i \in 1..Len(xs)}
Without(xs, c) == SelectSeq(xs, LAMBDA x : x # c)

----------------------------------------------------------------------------
(* Replies (RESP values), and what a step leaves in `last` *)

Reply(t, s, n, xs) == [t |-> t, s |-> s, n |-> n, xs |-> xs]
Simple(s) == Reply("simple", s, 0, <<>>)
Bulk(s) == Reply("bulk", s, 0, <<>>)
NullBulk == Reply("nullbulk", "", 0, <<>>)
Integer(n) == Reply("int", "", n, <<>>)
Arr(xs) == Reply("array", "", 0, xs)
NullArr == Reply("nullarray", "", 0, <<>>)
Err(s) == Reply("error", s, 0, <<>>)
\* a stream ID "ms-seq" as a bulk string
IdBulk(ms, seq) == Reply("bulk", "id", ms * 100 + seq, <<>>)
\* the handler raised: handle_connection closes the connection, nothing is written
Exc == Reply("exception", "", 0, <<>>)
\* the handler is suspended; nothing is written yet
Pending == Reply("pending", "", 0, <<>>)
\* a step that is no command (clock, connect)
NoReply == Reply("none", "", 0, <<>>)

Step(c, cmd, k, r) == [c |-> c, cmd |-> cmd, key |-> k, reply |-> r, arg |-> <<>>]

\* the same for a command whose arguments the properties refer to
StepArg(c, cmd, k, r, arg) == [c |-> c, cmd |-> cmd, key |-> k, reply |-> r, arg |-> arg]

\* encode_bulk_string(x): len(x) raises on an int; a tuple is formatted with str()
CanEncode(x) == x.t # "int"
EncodeBulk(x) ==
    CASE x.t = "str" -> Bulk(x.s)
      [] x.t = "none" -> NullBulk
      [] OTHER -> Bulk("tuple")

----------------------------------------------------------------------------
(* The connection task *)

\* key, timeout and deadline of the suspended BLPOP.  History: `floor` is the
\* number of values pushed before the call, `due` the value whose put woke the
\* waiter, `peers` the number of BLPOPs suspended when that push ran and
\* `batch` the number of values the push carried; `gone` says that the client
\* closed its end while the call was suspended
NoBlk == [key |-> "-", timeout |-> 0, deadline |-> None, floor |-> 0,
          due |-> "", peers |-> 0, batch |-> 0, gone |-> FALSE]
NoXrd == [streams |-> <<>>, deadline |-> None]
NoQueue == [exists |-> FALSE, items |-> <<>>, getters |-> <<>>]

Idle(c) == pc[c] = "idle"

\* a variant of Return in which an exception ends every connection
Return_abort(c, cmd, k, r) ==
    /\ pc' = IF r = Exc THEN [x \in Conns |-> "closed"]
             ELSE [pc EXCEPT ![c] = "idle"]
    /\ last' = Step(c, cmd, k, r)

\* A handler returned `r` (or raised, r = Exc) without suspending.
Return(c, cmd, k, r) ==
    /\ pc' = [pc EXCEPT ![c] = IF r = Exc THEN "closed" ELSE "idle"]
    /\ last' = Step(c, cmd, k, r)

Init ==
    /\ store = [k \in Keys |-> Absent]
    /\ queues = [k \in Keys |-> NoQueue]
    /\ stream_queues = [k \in Keys |-> <<>>]
    /\ stream_keys = {}
    /\ now = 0
    /\ pc = [c \in Conns |-> "idle"]
    /\ blk = [c \in Conns |-> NoBlk]
    /\ xrd = [c \in Conns |-> NoXrd]
    /\ ready = <<>>
    /\ last = Step("-", "INIT", "-", NoReply)
    /\ nextVal = 0
    /\ lastSet = [k \in Keys |-> [set |-> FALSE, value |-> "", expiry |-> None]]
    /\ ttlSeen = [k \in Keys |-> None]
    /\ servedLog = <<>>
    /\ callOrder = <<>>
    /\ sent = [c \in Conns |-> <<>>]

\* time passes
Tick ==
    /\ now < MaxTime
    /\ now' = now + 1
    /\ last' = Step("-", "TICK", "-", NoReply)
    /\ UNCHANGED <<store, queues, stream_queues, stream_keys, pc, blk, xrd, ready, nextVal,
                   lastSet, ttlSeen, servedLog, callOrder, sent>>

----------------------------------------------------------------------------
(* PING and ECHO *)

handle_ping(c) ==
    /\ Idle(c)
    /\ Return(c, "PING", "-", Simple("PONG"))
    /\ UNCHANGED <<store, queues, stream_queues, stream_keys, now, blk, xrd, ready, nextVal,
                   lastSet, ttlSeen, servedLog, callOrder, sent>>

handle_echo(c, message) ==
    /\ Idle(c)
    /\ Return(c, "ECHO", "-", Bulk(message))
    /\ UNCHANGED <<store, queues, stream_queues, stream_keys, now, blk, xrd, ready, nextVal,
                   lastSet, ttlSeen, servedLog, callOrder, sent>>

----------------------------------------------------------------------------
(* SET and GET *)

\* the entry handle_set stores
SetEntry(value, expiry_ms, t) ==
    StringEntry(value, IF expiry_ms = None THEN None ELSE t + expiry_ms)

handle_set(c, k, value, expiry_ms) ==
    /\ Idle(c)
    /\ store' = [store EXCEPT ![k] = SetEntry(value, expiry_ms, now)]
    /\ Return(c, "SET", k, Simple("OK"))
    /\ lastSet' = [lastSet EXCEPT ![k] =
            [set |-> TRUE, value |-> value,
             expiry |-> IF expiry_ms = None THEN None ELSE now + expiry_ms]]
    /\ ttlSeen' = [ttlSeen EXCEPT ![k] =
            IF expiry_ms = None THEN @ ELSE Max(@, now + expiry_ms)]
    /\ UNCHANGED <<queues, stream_queues, stream_keys, now, blk, xrd, ready, nextVal,
                   servedLog, callOrder, sent>>

\* a variant that also expires the key at the instant of its expiry
Expired_inclusive(expiry, t) == expiry # None /\ expiry <= t

\* `expiry is not None and expiry < now`
Expired(expiry, t) == expiry # None /\ expiry < t

\* a variant of handle_get that deletes the key it has read
GetResult_take(e, t) ==
    IF e.kind = "absent" THEN [entry |-> e, reply |-> NullBulk]
    ELSE IF Len(e.elems) # 2 THEN [entry |-> e, reply |-> Exc]
    ELSE [entry |-> Absent, reply |-> NullBulk]

\* handle_get on entry e at time t: [entry, reply].
\* `value, expiry = store.get(key, (None, None))` raises unless the stored
\* container has two elements; `expiry < now` raises unless expiry is an int.
GetResult(e, t) ==
    IF e.kind = "absent" THEN [entry |-> e, reply |-> NullBulk]
    ELSE IF Len(e.elems) # 2 THEN [entry |-> e, reply |-> Exc]
    ELSE LET value == e.elems[1]
             expiry == e.elems[2]
         IN  IF value.t = "none" THEN [entry |-> e, reply |-> NullBulk]
             ELSE IF expiry.t = "none"
                 THEN [entry |-> e,
                       reply |-> IF CanEncode(value) THEN EncodeBulk(value) ELSE Exc]
             ELSE IF expiry.t # "int" THEN [entry |-> e, reply |-> Exc]
             ELSE IF Expired(expiry.ms, t) THEN [entry |-> Absent, reply |-> NullBulk]
             ELSE [entry |-> e,
                   reply |-> IF CanEncode(value) THEN EncodeBulk(value) ELSE Exc]

handle_get(c, k) ==
    /\ Idle(c)
    /\ LET r == GetResult(store[k], now)
       IN  /\ store' = [store EXCEPT ![k] = r.entry]
           /\ Return(c, "GET", k, r.reply)
    /\ UNCHANGED <<queues, stream_queues, stream_keys, now, blk, xrd, ready, nextVal,
                   lastSet, ttlSeen, servedLog, callOrder, sent>>

----------------------------------------------------------------------------
(* Lists: RPUSH, LPUSH, LPOP, LLEN, LRANGE *)

\* the next n fresh values, in argument order
Fresh(n) == [i \in 1..n |-> Val(nextVal + i)]

\* push_values_into_queue: put_nowait each value; every put wakes the head
\* getter (asyncio.Queue._wakeup_next).  `if queue:` holds for every queue.
PutAll(q, values) ==
    LET n == Min(Len(values), Len(q.getters))
    IN  IF q.exists
        THEN [q EXCEPT !.items = @ \o values, !.getters = Drop(@, n)]
        ELSE q

\* a variant in which a put wakes no getter
Woken_none(q, values) == <<>>

\* the getters those puts wake, in order
Woken(q, values) ==
    IF q.exists THEN Take(q.getters, Min(Len(values), Len(q.getters))) ELSE <<>>

\* a push: `existing` is store.get(key, []), `added` the values as they are
\* laid out in the list; list + tuple raises TypeError before anything is stored
Push(c, cmd, k, newElems, queued) ==
    /\ Idle(c)
    /\ nextVal + Len(queued) <= MaxPushed
    /\ IF store[k].kind = "tuple"
       THEN /\ Return(c, cmd, k, Exc)
            /\ UNCHANGED <<store, queues, ready, blk>>
       ELSE /\ store' = [store EXCEPT ![k] = PyList(newElems)]
            /\ queues' = [queues EXCEPT ![k] = PutAll(@, queued)]
            /\ ready' = ready \o Woken(queues[k], queued)
            /\ pc' = [x \in Conns |->
                        IF x \in Range(Woken(queues[k], queued)) THEN "blpop_woken"
                        ELSE pc[x]]
            /\ blk' = [x \in Conns |->
                        IF x \in Range(Woken(queues[k], queued))
                        THEN [blk[x] EXCEPT
                                !.due = queued[CHOOSE i \in 1..Len(Woken(queues[k], queued)) :
                                                 queues[k].getters[i] = x],
                                !.peers = Len(callOrder),
                                !.batch = Len(queued)]
                        ELSE blk[x]]
            /\ last' = Step(c, cmd, k, Integer(Len(newElems)))
    /\ nextVal' = nextVal + Len(queued)
    /\ UNCHANGED <<stream_queues, stream_keys, now, xrd, lastSet, ttlSeen, servedLog, callOrder, sent>>

AsElems(values) == [i \in 1..Len(values) |-> PyStr(values[i])]

\* RPUSH key v1..vn
RpushList(existing, values) == existing \o AsElems(values)

handle_rpush(c, k, n) ==
    Push(c, "RPUSH", k, RpushList(store[k].elems, Fresh(n)), Fresh(n))

\* a variant of LPUSH that keeps the values in argument order
LpushList_inorder(existing, values) == AsElems(values) \o existing

\* LPUSH key v1..vn: reversed(values) + existing; the reversed values are queued
LpushList(existing, values) == AsElems(Reverse(values)) \o existing

handle_lpush(c, k, n) ==
    Push(c, "LPUSH", k, LpushList(store[k].elems, Fresh(n)), Reverse(Fresh(n)))

\* a variant that stores the emptied list instead of deleting the key
LpopResult_empty(e, count) ==
    IF Falsy(e) THEN [entry |-> e, reply |-> NullBulk]
    ELSE LET n == Min(IF count = None THEN 1 ELSE count, Len(e.elems))
             popped == Take(e.elems, n)
         IN  [entry |-> [e EXCEPT !.elems = Drop(e.elems, n)],
              reply |-> IF \E i \in 1..n : ~CanEncode(popped[i]) THEN Exc
                        ELSE IF n > 1 THEN Arr([i \in 1..n |-> EncodeBulk(popped[i])])
                        ELSE EncodeBulk(popped[1])]

\* a variant that replies with the popped elements but stores nothing
LpopResult_keep(e, count) ==
    IF Falsy(e) THEN [entry |-> e, reply |-> NullBulk]
    ELSE LET n == Min(IF count = None THEN 1 ELSE count, Len(e.elems))
             popped == Take(e.elems, n)
         IN  [entry |-> e,
              reply |-> IF n > 1 THEN Arr([i \in 1..n |-> EncodeBulk(popped[i])])
                        ELSE EncodeBulk(popped[1])]

\* handle_lpop on entry e: [entry, reply].  count = None stands for no count.
\* The store is updated before the reply is encoded, so an encoding error
\* leaves the elements removed.
LpopResult(e, count) ==
    IF Falsy(e) THEN [entry |-> e, reply |-> NullBulk]
    ELSE LET n == Min(IF count = None THEN 1 ELSE count, Len(e.elems))
             popped == Take(e.elems, n)
             remaining == Drop(e.elems, n)
             entry == IF remaining # <<>> THEN [e EXCEPT !.elems = remaining]
                      ELSE Absent
             reply == IF \E i \in 1..n : ~CanEncode(popped[i]) THEN Exc
                      ELSE IF n > 1 THEN Arr([i \in 1..n |-> EncodeBulk(popped[i])])
                      ELSE EncodeBulk(popped[1])
         IN  [entry |-> entry, reply |-> reply]

handle_lpop(c, k, count) ==
    /\ Idle(c)
    /\ LET r == LpopResult(store[k], count)
       IN  /\ store' = [store EXCEPT ![k] = r.entry]
           /\ Return(c, "LPOP", k, r.reply)
    /\ UNCHANGED <<queues, stream_queues, stream_keys, now, blk, xrd, ready, nextVal,
                   lastSet, ttlSeen, servedLog, callOrder, sent>>

\* handle_llen: len() of whatever container is stored
LlenResult(e) == Integer(Len(e.elems))

handle_llen(c, k) ==
    /\ Idle(c)
    /\ Return(c, "LLEN", k, LlenResult(store[k]))
    /\ UNCHANGED <<store, queues, stream_queues, stream_keys, now, blk, xrd, ready, nextVal,
                   lastSet, ttlSeen, servedLog, callOrder, sent>>

\* a variant of the slice that leaves out the element before `stop`
Slice_short(xs, start, stop) ==
    SubSeq(xs, Min(start, Len(xs)) + 1, Min(stop, Len(xs)) - 1)

\* stored_list[start:stop] of Python for 0 <= start, 0 <= stop
Slice(xs, start, stop) ==
    SubSeq(xs, Min(start, Len(xs)) + 1, Min(stop, Len(xs)))

\* a variant that takes a negative stop as exclusive
LrangeResult_exclusive(e, start, stop) ==
    LET len == Len(e.elems)
        from == IF start >= 0 THEN start ELSE Max(0, len + start)
        to == IF stop >= 0 THEN stop + 1 ELSE Max(0, len + stop)
        result == Slice(e.elems, from, to)
    IN  IF \E i \in 1..Len(result) : ~CanEncode(result[i]) THEN Exc
        ELSE Arr([i \in 1..Len(result) |-> EncodeBulk(result[i])])

LrangeResult(e, start, stop) ==
    LET len == Len(e.elems)
        from == IF start >= 0 THEN start ELSE Max(0, len + start)
        to == IF stop >= 0 THEN stop + 1 ELSE Max(0, len + stop + 1)
        result == Slice(e.elems, from, to)
    IN  IF \E i \in 1..Len(result) : ~CanEncode(result[i]) THEN Exc
        ELSE Arr([i \in 1..Len(result) |-> EncodeBulk(result[i])])

handle_lrange(c, k, start, stop) ==
    /\ Idle(c)
    /\ LET r == LrangeResult(store[k], start, stop)
       IN  /\ pc' = [pc EXCEPT ![c] = IF r = Exc THEN "closed" ELSE "idle"]
           /\ last' = StepArg(c, "LRANGE", k, r, <<start, stop>>)
    /\ UNCHANGED <<store, queues, stream_queues, stream_keys, now, blk, xrd, ready, nextVal,
                   lastSet, ttlSeen, servedLog, callOrder, sent>>

\* handle_type
TypeName(e) ==
    IF e.kind = "absent" THEN "none"
    ELSE IF e.kind = "list"
         THEN IF e.elems # <<>> /\ e.elems[1].t = "entry" THEN "stream" ELSE "list"
    ELSE "string"

handle_type(c, k) ==
    /\ Idle(c)
    /\ Return(c, "TYPE", k, Simple(TypeName(store[k])))
    /\ UNCHANGED <<store, queues, stream_queues, stream_keys, now, blk, xrd, ready, nextVal,
                   lastSet, ttlSeen, servedLog, callOrder, sent>>

----------------------------------------------------------------------------
(* BLPOP *)

\* the index of a pushed value
IdxOf(s) == CHOOSE i \in 1..(MaxPushed + 1) : Val(i) = s

\* history record of a value taken from a queue, with the number of values
\* that had been pushed when the BLPOP that took it was issued
Served(item, floor) == [val |-> item, floor |-> floor]

\* `command.timeout if command.timeout > 0 else None`, as a deadline of the loop
Deadline(timeout, t) == IF timeout > 0 THEN t + timeout ELSE None

\* handle_blpop up to its await.  A non-empty store value goes through
\* handle_lpop; otherwise the key's queue is created if missing and
\* queue.get() either takes the head item at once or registers a getter.
BlpopCall(c, k, timeout) ==
    /\ Idle(c)
    /\ IF ~Falsy(store[k])
       THEN LET r == LpopResult(store[k], None)
            IN  /\ store' = [store EXCEPT ![k] = r.entry]
                /\ Return(c, "BLPOP", k,
                          IF r.reply = Exc THEN Exc ELSE Arr(<<Bulk(k), r.reply>>))
                /\ UNCHANGED <<queues, blk, servedLog, callOrder>>
       ELSE IF queues[k].items # <<>>
       THEN /\ queues' = [queues EXCEPT ![k].items = Tail(@)]
            /\ Return(c, "BLPOP", k, Arr(<<Bulk(k), Bulk(Head(queues[k].items))>>))
            /\ servedLog' = Append(servedLog,
                    Served(Head(queues[k].items), nextVal))
            /\ UNCHANGED <<store, blk, callOrder>>
       ELSE /\ queues' = [queues EXCEPT ![k] =
                    [exists |-> TRUE, items |-> <<>>, getters |-> Append(@.getters, c)]]
            /\ pc' = [pc EXCEPT ![c] = "blpop_wait"]
            /\ blk' = [blk EXCEPT ![c] =
                    [NoBlk EXCEPT !.key = k, !.timeout = timeout,
                                  !.deadline = Deadline(timeout, now),
                                  !.floor = nextVal]]
            /\ last' = Step(c, "BLPOP", k, Pending)
            /\ callOrder' = Append(callOrder, c)
            /\ UNCHANGED <<store, servedLog>>
    /\ UNCHANGED <<stream_queues, stream_keys, now, xrd, ready, nextVal, lastSet, ttlSeen, sent>>

\* what the getter does when its task resumes (asyncio.Queue.get: `while
\* self.empty()` registers a new getter at the back, else get_nowait)
ResumeGet(q, c) ==
    IF q.items = <<>>
    THEN [q EXCEPT !.getters = Append(@, c)]
    ELSE [q EXCEPT !.items = Tail(@)]

\* the client closes its end while its BLPOP is suspended.  handle_connection
\* is inside `await handle_blpop(command)` and reads nothing, so the task
\* does not learn of it: the getter stays registered.
Disconnect(c) ==
    /\ pc[c] \in {"blpop_wait", "blpop_woken"}
    /\ ~blk[c].gone
    /\ blk' = [blk EXCEPT ![c].gone = TRUE]
    /\ last' = Step(c, "DISCONNECT", blk[c].key, NoReply)
    /\ UNCHANGED <<store, queues, stream_queues, stream_keys, now, pc, xrd, ready, nextVal,
                   lastSet, ttlSeen, servedLog, callOrder, sent>>

\* the reply of a BLPOP that was suspended is written: drain() raises on a
\* connection the client closed, and the task ends
AfterReply(c) == IF blk[c].gone THEN "closed" ELSE "idle"

\* The woken getter's task runs: it is the head of the ready queue.
BlpopResume(c) ==
    /\ pc[c] = "blpop_woken"
    /\ ready # <<>> /\ Head(ready) = c
    /\ ready' = Tail(ready)
    /\ LET k == blk[c].key
           q == queues[k]
       IN  /\ queues' = [queues EXCEPT ![k] = ResumeGet(q, c)]
           /\ IF q.items = <<>>
              THEN /\ pc' = [pc EXCEPT ![c] = "blpop_wait"]
                   /\ blk' = [blk EXCEPT ![c].due = "", ![c].peers = 0,
                                          ![c].batch = 0]
                   /\ last' = Step(c, "BLPOP_RESUME", k, Pending)
                   /\ UNCHANGED <<servedLog, callOrder>>
              ELSE /\ pc' = [pc EXCEPT ![c] = AfterReply(c)]
                   /\ blk' = [blk EXCEPT ![c] = NoBlk]
                   /\ last' = Step(c, "BLPOP_RESUME", k,
                                   Arr(<<Bulk(k), Bulk(Head(q.items))>>))
                   /\ servedLog' = Append(servedLog,
                            Served(Head(q.items), blk[c].floor))
                   /\ callOrder' = Without(callOrder, c)
    /\ UNCHANGED <<store, stream_queues, stream_keys, now, xrd, nextVal, lastSet, ttlSeen, sent>>

\* asyncio.wait_for's deadline passes: the get() is cancelled and BLPOP replies
\* the null array.  A getter that was already woken hands the wake-up on to
\* the next getter when the queue still holds an item.
BlpopTimeout(c) ==
    /\ pc[c] \in {"blpop_wait", "blpop_woken"}
    /\ blk[c].deadline # None /\ now >= blk[c].deadline
    /\ LET k == blk[c].key
           q == queues[k]
           rest == Without(q.getters, c)
           pass == pc[c] = "blpop_woken" /\ q.items # <<>> /\ rest # <<>>
       IN  /\ queues' = [queues EXCEPT ![k].getters =
                            IF pass THEN Tail(rest) ELSE rest]
           /\ ready' = IF pass THEN Append(Without(ready, c), Head(rest))
                       ELSE Without(ready, c)
           /\ pc' = [x \in Conns |->
                        IF x = c THEN AfterReply(c)
                        ELSE IF pass /\ x = Head(rest) THEN "blpop_woken"
                        ELSE pc[x]]
           /\ blk' = [x \in Conns |->
                        IF x = c THEN NoBlk
                        ELSE IF pass /\ x = Head(rest)
                             THEN [blk[x] EXCEPT !.due = blk[c].due]
                        ELSE blk[x]]
           /\ last' = Step(c, "BLPOP_TIMEOUT", k, NullArr)
    /\ callOrder' = Without(callOrder, c)
    /\ UNCHANGED <<store, stream_queues, stream_keys, now, xrd, nextVal, lastSet, ttlSeen,
                   servedLog, sent>>

----------------------------------------------------------------------------
(* Streams: XADD, XREAD [BLOCK] *)

\* what a `$` cursor becomes when the last element of the list is a str:
\* its characters, on which every later comparison raises
Garbage == 0 - 2

IsStreamList(e) == e.kind = "list" /\ \A i \in 1..Len(e.elems) : e.elems[i].t = "entry"
NumEntries(e) == Len(SelectSeq(e.elems, LAMBDA x : x.t = "entry"))

\* `last_ms, last_seq, _ = stream[-1]` succeeds on a 3-tuple only
CanUnpackLast(e) == e.kind = "list" /\ Last(e.elems).t = "entry"

\* `if not command.entry_id_seq`: true of None and of 0
SeqMissing(seq) == seq = None \/ seq = 0

\* a variant that starts every empty stream at sequence number 0
XaddSeq_zero(e, ms, seq) ==
    IF SeqMissing(seq) /\ ~Falsy(e)
    THEN IF ms = Last(e.elems).ms THEN Last(e.elems).seq + 1 ELSE 0
    ELSE IF SeqMissing(seq) /\ Falsy(e)
    THEN 0
    ELSE seq

\* the sequence number handle_xadd settles on
XaddSeq(e, ms, seq) ==
    IF SeqMissing(seq) /\ ~Falsy(e)
    THEN IF ms = Last(e.elems).ms THEN Last(e.elems).seq + 1 ELSE 0
    ELSE IF SeqMissing(seq) /\ Falsy(e)
    THEN IF ms = 0 THEN 1 ELSE 0
    ELSE seq

\* a variant that lets an ID equal to the last one through
XaddRejected_lenient(e, ms, seq) ==
    /\ ~Falsy(e)
    /\ \/ ms < Last(e.elems).ms
       \/ ms = Last(e.elems).ms /\ seq < Last(e.elems).seq

\* the ordering check against the last entry
XaddRejected(e, ms, seq) ==
    /\ ~Falsy(e)
    /\ \/ ms < Last(e.elems).ms
       \/ ms = Last(e.elems).ms /\ seq <= Last(e.elems).seq

XaddTooSmall == Err("The ID specified in XADD is equal or smaller than the target stream top item")

\* handle_xadd on entry e: [entry, reply, added]
XaddResult(e, ms, seq) ==
    IF ~Falsy(e) /\ ~CanUnpackLast(e)
    THEN [entry |-> e, reply |-> Exc, added |-> FALSE]
    ELSE LET s == XaddSeq(e, ms, seq)
         IN  IF XaddRejected(e, ms, s)
             THEN [entry |-> e, reply |-> XaddTooSmall, added |-> FALSE]
             ELSE [entry |-> PyList(Append(e.elems, PyEntry(ms, s))),
                   reply |-> IdBulk(ms, s), added |-> TRUE]

Dedup(xs) == SelectSeq([i \in 1..Len(xs) |->
                          IF \E j \in 1..(i - 1) : xs[j] = xs[i] THEN "-" ELSE xs[i]],
                       LAMBDA x : x # "-")

\* a variant that wakes every waiting XREAD BLOCK, whatever it watches
XaddWoken_all(k) == SelectSeq(<<"c1", "c2", "c3">>, LAMBDA x : pc[x] = "xread_wait")

\* the XREAD BLOCK tasks an XADD to k wakes: queue.put_nowait(entry) on every
\* queue registered for k
XaddWoken(k) == Dedup(SelectSeq(stream_queues[k], LAMBDA x : pc[x] = "xread_wait"))

\* XADD key ms-seq (seq = None for ms-*), after parse_xadd: `*` is now-*,
\* and 0-0 is refused by the parser
handle_xadd(c, k, ms, seq) ==
    /\ Idle(c)
    /\ IF ms = 0 /\ seq = 0
       THEN /\ pc' = [pc EXCEPT ![c] = "idle"]
            /\ last' = StepArg(c, "XADD", k,
                    Err("The ID specified in XADD must be greater than 0-0"), <<ms, seq>>)
            /\ UNCHANGED <<store, ready>>
       ELSE LET r == XaddResult(store[k], ms, seq)
                woken == IF r.added THEN XaddWoken(k) ELSE <<>>
            IN  /\ r.added => /\ NumEntries(store[k]) < MaxStream
                               /\ Last(r.entry.elems).seq <= MaxSeq + MaxStream
                /\ store' = [store EXCEPT ![k] = r.entry]
                /\ ready' = ready \o woken
                /\ pc' = [x \in Conns |->
                            IF x = c THEN (IF r.reply = Exc THEN "closed" ELSE "idle")
                            ELSE IF x \in Range(woken) THEN "xread_woken"
                            ELSE pc[x]]
                /\ last' = StepArg(c, "XADD", k, r.reply, <<ms, seq>>)
    /\ UNCHANGED <<queues, stream_queues, stream_keys, now, blk, xrd, nextVal, lastSet, ttlSeen,
                   servedLog, callOrder, sent>>

\* XADD key * ...
handle_xadd_star(c, k) == handle_xadd(c, k, now, None)

\* `include` of handle_xrange, for the bounds after their defaults
XrangeInclude(x, start_ms, start_seq, end_ms, end_seq) ==
    /\ start_ms <= x.ms /\ x.ms <= end_ms
    /\ (x.ms = start_ms /\ x.seq >= start_seq) \/ x.ms # start_ms
    /\ \/ end_seq = None
       \/ x.ms = end_ms /\ x.seq <= end_seq
       \/ x.ms # end_ms

\* the reply of handle_xrange; a bound is (ms, seq) as parse_stream_id returns
\* it: (None, None) for - and +, (ms, None) for ms alone.  Every entry of the
\* reply stands for the pair of its ID and its fields.  A stored value that is
\* not a list of entries cannot be unpacked into (ms, seq, data).
XrangeResult(e, s_ms, s_seq, e_ms, e_seq) ==
    IF Falsy(e) THEN NullBulk
    ELSE IF ~IsStreamList(e) THEN Exc
    ELSE LET start_seq == IF s_seq # None THEN s_seq ELSE 0
             start_ms == IF s_ms = None \/ s_ms = 0 THEN e.elems[1].ms ELSE s_ms
             end_ms == IF e_ms = None \/ e_ms = 0 THEN Last(e.elems).ms ELSE e_ms
             ids == SelectSeq(e.elems,
                        LAMBDA x : XrangeInclude(x, start_ms, start_seq, end_ms, e_seq))
         IN  Arr([j \in 1..Len(ids) |-> IdBulk(ids[j].ms, ids[j].seq)])

handle_xrange(c, k, s_ms, s_seq, e_ms, e_seq) ==
    /\ Idle(c)
    /\ LET r == XrangeResult(store[k], s_ms, s_seq, e_ms, e_seq)
       IN  /\ pc' = [pc EXCEPT ![c] = IF r = Exc THEN "closed" ELSE "idle"]
           /\ last' = StepArg(c, "XRANGE", k, r, <<s_ms, s_seq, e_ms, e_seq>>)
    /\ UNCHANGED <<store, queues, stream_queues, stream_keys, now, blk, xrd, ready, nextVal,
                   lastSet, ttlSeen, servedLog, callOrder, sent>>

Cursor(k, ms, seq) == [key |-> k, ms |-> ms, seq |-> seq]

\* a variant that also takes the entry with the ID of the cursor
IsGreater_inclusive(x, ms, seq) ==
    x.ms > ms \/ (x.ms = ms /\ x.seq >= (IF seq = None THEN 0 ELSE seq))

\* is_greater of get_new_entries
IsGreater(x, ms, seq) ==
    x.ms > ms \/ (x.ms = ms /\ x.seq > (IF seq = None THEN 0 ELSE seq))

\* one round of the loop of get_new_entries, for one (key, last_id):
\* [exc, cursor, ids]
ReadOne(st, e) ==
    IF Falsy(e) THEN [exc |-> FALSE, cursor |-> st, ids |-> <<>>]
    ELSE IF st.ms = None
    THEN IF e.kind # "list"
         THEN [exc |-> TRUE, cursor |-> st, ids |-> <<>>]
         ELSE IF Last(e.elems).t = "entry"
         THEN [exc |-> FALSE,
               cursor |-> Cursor(st.key, Last(e.elems).ms, Last(e.elems).seq),
               ids |-> <<>>]
         ELSE [exc |-> FALSE, cursor |-> Cursor(st.key, Garbage, Garbage), ids |-> <<>>]
    ELSE IF ~IsStreamList(e) \/ st.ms = Garbage
    THEN [exc |-> TRUE, cursor |-> st, ids |-> <<>>]
    ELSE [exc |-> FALSE, cursor |-> st,
          ids |-> SelectSeq(e.elems, LAMBDA x : IsGreater(x, st.ms, st.seq))]

\* get_new_entries: [exc, streams, results]
GetNewEntries(streams, S) ==
    LET one == [i \in 1..Len(streams) |-> ReadOne(streams[i], S[streams[i].key])]
    IN  [exc |-> \E i \in 1..Len(streams) : one[i].exc,
         streams |-> [i \in 1..Len(streams) |-> one[i].cursor],
         results |-> SelectSeq([i \in 1..Len(streams) |->
                                    [key |-> streams[i].key, ids |-> one[i].ids]],
                               LAMBDA r : r.ids # <<>>)]

\* a variant that encodes an empty result as the empty array
XreadReply_empty(results) ==
    Arr([i \in 1..Len(results) |->
            Arr(<<Bulk(results[i].key),
                  Arr([j \in 1..Len(results[i].ids) |->
                         IdBulk(results[i].ids[j].ms, results[i].ids[j].seq)])>>)])

\* the reply of handle_xread for these results
XreadReply(results) ==
    IF results = <<>> THEN NullArr
    ELSE Arr([i \in 1..Len(results) |->
                Arr(<<Bulk(results[i].key),
                      Arr([j \in 1..Len(results[i].ids) |->
                             IdBulk(results[i].ids[j].ms, results[i].ids[j].seq)])>>)])

\* `command.block_ms / 1000.0 if command.block_ms > 0 else None`
XreadDeadline(block_ms, t) == IF block_ms > 0 THEN t + block_ms ELSE None

\* stream_queues with one queue of c registered for every stream of the call
Register(sq, streams, c) ==
    [k \in Keys |->
        sq[k] \o [i \in 1..Len(SelectSeq(streams, LAMBDA st : st.key = k)) |-> c]]

\* the keys stream_queues has after the registration: those of the call are
\* created where missing
RegisterKeys(keys, streams) == keys \cup {streams[i].key : i \in 1..Len(streams)}

\* the `finally` of handle_xread: every queue of the call is removed
Unregister(sq, c) == [k \in Keys |-> Without(sq[k], c)]

\* a variant of the clean-up that never deletes a key
UnregisterKeys_keep(keys, sq, c) == keys

\* ... and a key whose list became empty by that is deleted
UnregisterKeys(keys, sq, c) ==
    keys \ {k \in Keys : c \in Range(sq[k]) /\ Without(sq[k], c) = <<>>}

\* handle_xread up to its await; block = FALSE is XREAD without BLOCK
XreadCall(c, streams, block, block_ms) ==
    /\ Idle(c)
    /\ LET r == GetNewEntries(streams, store)
       IN  IF r.exc
           THEN /\ pc' = [pc EXCEPT ![c] = "closed"]
                /\ last' = StepArg(c, "XREAD", streams[1].key, Exc, streams)
                /\ UNCHANGED <<stream_queues, stream_keys, xrd>>
           ELSE IF r.results # <<>> \/ ~block
           THEN /\ pc' = [pc EXCEPT ![c] = "idle"]
                /\ last' = StepArg(c, "XREAD", streams[1].key,
                                   XreadReply(r.results), streams)
                /\ UNCHANGED <<stream_queues, stream_keys, xrd>>
           ELSE /\ stream_queues' = Register(stream_queues, streams, c)
                /\ stream_keys' = RegisterKeys(stream_keys, streams)
                /\ xrd' = [xrd EXCEPT ![c] =
                        [streams |-> r.streams,
                         deadline |-> XreadDeadline(block_ms, now)]]
                /\ pc' = [pc EXCEPT ![c] = "xread_wait"]
                /\ last' = StepArg(c, "XREAD", streams[1].key, Pending, streams)
    /\ UNCHANGED <<store, queues, now, blk, ready, nextVal, lastSet, ttlSeen,
                   servedLog, callOrder, sent>>

\* the rest of handle_xread after its wait ended: recompute, clean up, reply
XreadFinish(c, cmd) ==
    LET r == GetNewEntries(xrd[c].streams, store)
    IN  /\ stream_queues' = Unregister(stream_queues, c)
        /\ stream_keys' = UnregisterKeys(stream_keys, stream_queues, c)
        /\ xrd' = [xrd EXCEPT ![c] = NoXrd]
        /\ ready' = Without(ready, c)
        /\ pc' = [pc EXCEPT ![c] = IF r.exc THEN "closed" ELSE "idle"]
        /\ last' = StepArg(c, cmd, xrd[c].streams[1].key,
                           IF r.exc THEN Exc ELSE XreadReply(r.results),
                           xrd[c].streams)
        /\ UNCHANGED <<store, queues, now, blk, nextVal, lastSet, ttlSeen,
                       servedLog, callOrder, sent>>

\* a queue of the call received an entry and the task runs again
XreadResume(c) ==
    /\ pc[c] = "xread_woken"
    /\ ready # <<>> /\ Head(ready) = c
    /\ XreadFinish(c, "XREAD_RESUME")

\* asyncio.wait_for's deadline passes (TimeoutError is swallowed)
XreadTimeout(c) ==
    /\ pc[c] \in {"xread_wait", "xread_woken"}
    /\ xrd[c].deadline # None /\ now >= xrd[c].deadline
    /\ XreadFinish(c, "XREAD_TIMEOUT")

\* a new client connects to a free slot (asyncio.start_server starts a new
\* handle_connection task)
Connect(c) ==
    /\ pc[c] = "closed"
    /\ pc' = [pc EXCEPT ![c] = "idle"]
    /\ last' = Step(c, "CONNECT", "-", NoReply)
    /\ UNCHANGED <<store, queues, stream_queues, stream_keys, now, blk, xrd, ready, nextVal,
                   lastSet, ttlSeen, servedLog, callOrder, sent>>

----------------------------------------------------------------------------
(* The connection driver and the commands it has no handler for *)

\* INCR, MULTI and EXEC have a parser in COMMAND_PARSERS and no handler,
\* DISCARD and PSYNC have neither
NoHandler == {"INCR", "MULTI", "EXEC", "DISCARD", "PSYNC"}

\* The reply of handle_connection to such a command.  parse_command returns a
\* command object for INCR, MULTI and EXEC and the dispatch ends in its last
\* branch, "Unknown command"; for DISCARD and PSYNC it returns the
\* CommandError "unknown command '<name>'".  (With the older parse_command of
\* resp_parser all of them get the CommandError; that, too, is an error reply.)
UnknownReply(name) ==
    IF name \in {"DISCARD", "PSYNC"}
    THEN Err("unknown command '" \o name \o "'")
    ELSE Err("Unknown command")

\* handle_connection on a command without a handler: the error is written and
\* the loop continues; nothing is remembered about the command
no_handler(c, name, k) ==
    /\ Idle(c)
    /\ Len(sent[c]) < MaxSent
    /\ last' = Step(c, name, k, UnknownReply(name))
    /\ sent' = [sent EXCEPT ![c] = Append(@, name)]
    /\ UNCHANGED <<store, queues, stream_queues, stream_keys, now, pc, blk, xrd, ready,
                   nextVal, lastSet, ttlSeen, servedLog, callOrder>>

\* the connections a step of handle_connection writes to: `writer` is the
\* writer of the connection whose command it is, and no other writer is kept
Receivers(step) == {step.c}

----------------------------------------------------------------------------
(* The bytes of one reader.read(), RESPParser and parse_command.  The data *)
(* are modelled line by line: *<n>, $<len> and the text after it.          *)

Star(n) == [t |-> "*", n |-> n, s |-> ""]
Dollar == [t |-> "$", n |-> 0, s |-> ""]
Text(s) == [t |-> "text", n |-> 0, s |-> s]

\* the lines of the bulk strings of the words ws
RECURSIVE Bulks(_)
Bulks(ws) ==
    IF ws = <<>> THEN <<>> ELSE <<Dollar, Text(Head(ws))>> \o Bulks(Tail(ws))

\* the frame a client sends for the command with the words ws
Frame(ws) == <<Star(Len(ws))>> \o Bulks(ws)

\* Python's None among parsed values, and str() of a parsed value
ParsedNone == "<None>"
Str(x) == IF x = ParsedNone THEN "None" ELSE x
\* str(x).upper(), for the upper-case words of the modelled frames
Upper(x) == IF x = ParsedNone THEN "NONE" ELSE x

\* the loop of RESPParser._parse_array over the lines ts: parse() returns None
\* at the end of the data, _parse_bulk_string raises when the text is not
\* there, and a text where a type byte is expected raises (every modelled text
\* starts with a letter or a digit)
RECURSIVE ParseElems(_, _)
ParseElems(ts, n) ==
    IF n = 0 THEN [exc |-> FALSE, vals |-> <<>>]
    ELSE IF ts = <<>>
    THEN LET r == ParseElems(ts, n - 1)
         IN  [exc |-> r.exc, vals |-> <<ParsedNone>> \o r.vals]
    ELSE IF Head(ts).t = "$" /\ Len(ts) >= 2 /\ ts[2].t = "text"
    THEN LET r == ParseElems(Drop(ts, 2), n - 1)
         IN  [exc |-> r.exc, vals |-> <<ts[2].s>> \o r.vals]
    ELSE [exc |-> TRUE, vals |-> <<>>]

\* parse_resp: one value from the start of the data; what follows it is not
\* looked at
parse_resp(ts) ==
    IF Head(ts).t = "*"
    THEN LET r == ParseElems(Tail(ts), Head(ts).n)
         IN  [exc |-> r.exc, list |-> TRUE, vals |-> r.vals]
    ELSE IF Head(ts).t = "$" /\ Len(ts) >= 2 /\ ts[2].t = "text"
    THEN [exc |-> FALSE, list |-> FALSE, vals |-> <<ts[2].s>>]
    ELSE [exc |-> TRUE, list |-> FALSE, vals |-> <<>>]

\* int(x) of the modelled words; None where it raises
IntWords == {"0", "1", "-1"}
IntOf(x) == CASE x = "0" -> 0 [] x = "1" -> 1 [] x = "-1" -> 0 - 1 [] OTHER -> None

\* a parsed command, or a CommandError with its message
Cmd(name, key, x, y) == [err |-> "", name |-> name, key |-> key, x |-> x, y |-> y]
CommandError(msg) == [err |-> msg, name |-> "", key |-> "", x |-> None, y |-> None]

parse_get(args) ==
    IF Len(args) # 1 THEN CommandError("wrong number of arguments for 'get' command")
    ELSE Cmd("GET", Str(args[1]), None, None)

parse_llen(args) ==
    IF Len(args) # 1 THEN CommandError("wrong number of arguments for 'llen' command")
    ELSE Cmd("LLEN", Str(args[1]), None, None)

\* int(None) raises TypeError, which only parse_command catches
parse_set(args) ==
    IF Len(args) < 2 THEN CommandError("wrong number of arguments for 'set' command")
    ELSE IF Len(args) >= 4
    THEN IF args[4] = ParsedNone THEN CommandError("parsing error")
         ELSE IF args[4] \notin IntWords THEN CommandError("invalid expiry value")
         ELSE IF Upper(args[3]) = "EX"
         THEN Cmd("SET", Str(args[1]), Str(args[2]), IntOf(args[4]) * 1000)
         ELSE IF Upper(args[3]) = "PX"
         THEN Cmd("SET", Str(args[1]), Str(args[2]), IntOf(args[4]))
         ELSE CommandError("invalid expiry option: " \o Upper(args[3]))
    ELSE IF Len(args) = 3 THEN CommandError("syntax error")
    ELSE Cmd("SET", Str(args[1]), Str(args[2]), None)

\* args[2] raises IndexError and int() ValueError or TypeError; parse_command
\* catches them
parse_lrange(args) ==
    IF Len(args) < 2 THEN CommandError("wrong number of arguments for 'lrange' command")
    ELSE IF Len(args) < 3 \/ args[2] \notin IntWords \/ args[3] \notin IntWords
    THEN CommandError("parsing error")
    ELSE Cmd("LRANGE", Str(args[1]), IntOf(args[2]), IntOf(args[3]))

\* parse_stream_id of the modelled IDs: "1-1", and "abc", which has no "-"
parse_xadd(args) ==
    IF Len(args) < 3 THEN CommandError("wrong number of arguments for 'xadd' command")
    ELSE IF Str(args[2]) # "1-1"
    THEN CommandError("Invalid stream ID specified as stream command argument")
    ELSE IF (Len(args) - 2) % 2 # 0
    THEN CommandError("wrong number of arguments for XADD")
    ELSE Cmd("XADD", Str(args[1]), 1, 1)

\* parse_command: COMMAND_PARSERS for the modelled commands; every exception
\* becomes the CommandError "parsing error: <its text>"
parse_command(ts) ==
    LET r == parse_resp(ts)
        name == Upper(r.vals[1])
        args == Tail(r.vals)
    IN  IF r.exc THEN CommandError("parsing error")
        ELSE IF ~r.list \/ r.vals = <<>> THEN CommandError("Invalid command format")
        ELSE CASE name = "GET" -> parse_get(args)
               [] name = "SET" -> parse_set(args)
               [] name = "LLEN" -> parse_llen(args)
               [] name = "LRANGE" -> parse_lrange(args)
               [] name = "XADD" -> parse_xadd(args)
               [] OTHER -> CommandError("unknown command '" \o name \o "'")

\* a variant of the CommandError branch that gives the connection up
command_error_close(c, msg) ==
    /\ Len(sent[c]) < MaxSent
    /\ pc' = [pc EXCEPT ![c] = "closed"]
    /\ last' = Step(c, "ERROR", "-", Err(msg))
    /\ sent' = [sent EXCEPT ![c] = Append(@, "ERROR")]
    /\ UNCHANGED <<store, queues, stream_queues, stream_keys, now, blk, xrd, ready,
                   nextVal, lastSet, ttlSeen, servedLog, callOrder>>

\* handle_connection on a CommandError: the error is written and the loop
\* continues with the next read
command_error(c, msg) ==
    /\ Len(sent[c]) < MaxSent
    /\ last' = Step(c, "ERROR", "-", Err(msg))
    /\ sent' = [sent EXCEPT ![c] = Append(@, "ERROR")]
    /\ UNCHANGED <<store, queues, stream_queues, stream_keys, now, pc, blk, xrd, ready,
                   nextVal, lastSet, ttlSeen, servedLog, callOrder>>

\* one round of handle_connection's loop on the data of one read: a single
\* parse_command(data), then the dispatch.  A key outside Keys is never
\* written by the modelled reads, so GET finds it missing.
receive(c, data) ==
    /\ Idle(c)
    /\ LET p == parse_command(data)
       IN  IF p.err # "" THEN command_error(c, p.err)
           ELSE CASE p.name = "GET" /\ p.key \in Keys -> handle_get(c, p.key)
                  [] p.name = "GET" /\ p.key \notin Keys ->
                        /\ last' = Step(c, "GET", p.key, NullBulk)
                        /\ UNCHANGED <<store, queues, stream_queues, stream_keys, now, pc, blk,
                                       xrd, ready, nextVal, lastSet, ttlSeen,
                                       servedLog, callOrder, sent>>
                  [] p.name = "SET" -> p.key \in Keys /\ handle_set(c, p.key, p.x, p.y)
                  [] p.name = "LLEN" -> p.key \in Keys /\ handle_llen(c, p.key)
                  [] p.name = "LRANGE" ->
                        p.key \in Keys /\ handle_lrange(c, p.key, p.x, p.y)
                  [] p.name = "XADD" -> p.key \in Keys /\ handle_xadd(c, p.key, p.x, p.y)

----------------------------------------------------------------------------
(* resp_encoder and RESPParser byte by byte.  A byte is a token: the type   *)
(* bytes, CR, LF, "-", a decimal numeral, an ASCII letter, and the two      *)
(* bytes C3 A9 of the character e-acute.                                    *)

CR == "CR"
LF == "LF"
CRLF == <<CR, LF>>
Wide == "e-acute"
Chars == {"a", Wide}

\* s.encode('utf-8') of a string given as its characters
RECURSIVE Utf8(_)
Utf8(s) ==
    IF s = <<>> THEN <<>>
    ELSE (IF Head(s) = Wide THEN <<"C3", "A9">> ELSE <<Head(s)>>) \o Utf8(Tail(s))

\* bytes.decode('utf-8'): [exc, s]; a lone C3 or A9 raises UnicodeDecodeError
RECURSIVE FromUtf8(_)
FromUtf8(bs) ==
    IF bs = <<>> THEN [exc |-> FALSE, s |-> <<>>]
    ELSE IF Head(bs) = "C3" /\ Len(bs) >= 2 /\ bs[2] = "A9"
    THEN LET r == FromUtf8(Drop(bs, 2))
         IN  [exc |-> r.exc, s |-> <<Wide>> \o r.s]
    ELSE IF Head(bs) \in {"C3", "A9"} THEN [exc |-> TRUE, s |-> <<>>]
    ELSE LET r == FromUtf8(Tail(bs))
         IN  [exc |-> r.exc, s |-> <<Head(bs)>> \o r.s]

\* f"{n}" and int(...) for the numbers that occur
Numerals == 0..(MaxText + MaxItems + 2)
Decimal(n) == IF n < 0 THEN <<"-", ToString(0 - n)>> ELSE <<ToString(n)>>
IsNumeral(b) == \E i \in Numerals : ToString(i) = b
NumeralOf(b) == CHOOSE i \in Numerals : ToString(i) = b
ToInt(bs) ==
    IF Len(bs) = 1 /\ IsNumeral(bs[1]) THEN [exc |-> FALSE, n |-> NumeralOf(bs[1])]
    ELSE IF Len(bs) = 2 /\ bs[1] = "-" /\ IsNumeral(bs[2])
    THEN [exc |-> FALSE, n |-> 0 - NumeralOf(bs[2])]
    ELSE [exc |-> TRUE, n |-> 0]

\* a RESP value to encode (s: the characters of a string) and a Python value
\* the parser returns
RespValue(t, s, n, xs) == [t |-> t, s |-> s, n |-> n, xs |-> xs]
PyValue(t, s, n, xs) == [t |-> t, s |-> s, n |-> n, xs |-> xs]

encode_simple_string(s) == <<"+">> \o Utf8(s) \o CRLF
encode_integer(n) == <<":">> \o Decimal(n) \o CRLF
\* len(s) counts characters
encode_bulk_string(s) == <<"$">> \o Decimal(Len(s)) \o CRLF \o Utf8(s) \o CRLF
encode_null == <<"$", "-", "1">> \o CRLF

RECURSIVE Concat(_)
Concat(items) == IF items = <<>> THEN <<>> ELSE Head(items) \o Concat(Tail(items))

\* the items are RESP-encoded bytes already
encode_array(items) == <<"*">> \o Decimal(Len(items)) \o CRLF \o Concat(items)

RECURSIVE Encode(_)
Encode(v) ==
    CASE v.t = "simple" -> encode_simple_string(v.s)
      [] v.t = "int" -> encode_integer(v.n)
      [] v.t = "bulk" -> encode_bulk_string(v.s)
      [] v.t = "null" -> encode_null
      [] v.t = "array" -> encode_array([i \in 1..Len(v.xs) |-> Encode(v.xs[i])])

\* RESPParser._read_until_crlf from position pos (bytes consumed so far)
read_until_crlf(data, pos) ==
    LET at == {i \in (pos + 1)..(Len(data) - 1) : data[i] = CR /\ data[i + 1] = LF}
    IN  IF at = {} THEN [exc |-> TRUE, out |-> <<>>, pos |-> pos]
        ELSE LET i == CHOOSE x \in at : \A y \in at : x <= y
             IN  [exc |-> FALSE, out |-> SubSeq(data, pos + 1, i - 1), pos |-> i + 1]

Raised == [exc |-> TRUE, val |-> PyValue("none", <<>>, 0, <<>>), pos |-> 0]
Parsed(val, pos) == [exc |-> FALSE, val |-> val, pos |-> pos]

\* RESPParser.parse at position pos: [exc, val, pos].  A length below -1 does
\* not occur in what the encoder writes.
RECURSIVE parse(_, _)
RECURSIVE parse_array_items(_, _, _)
parse_array_items(data, pos, count) ==
    IF count <= 0 THEN [exc |-> FALSE, xs |-> <<>>, pos |-> pos]
    ELSE LET first == parse(data, pos)
         IN  IF first.exc THEN [exc |-> TRUE, xs |-> <<>>, pos |-> pos]
             ELSE LET rest == parse_array_items(data, first.pos, count - 1)
                  IN  [exc |-> rest.exc, xs |-> <<first.val>> \o rest.xs,
                       pos |-> rest.pos]

parse(data, pos) ==
    IF pos >= Len(data) THEN Parsed(PyValue("none", <<>>, 0, <<>>), pos)
    ELSE LET type_byte == data[pos + 1]
             line == read_until_crlf(data, pos + 1)
             number == ToInt(line.out)
         IN  CASE type_byte \in {"+", "-"} ->
                    LET text == FromUtf8(line.out)
                    IN  IF line.exc \/ text.exc THEN Raised
                        ELSE Parsed(PyValue("str", text.s, 0, <<>>), line.pos)
               [] type_byte = ":" ->
                    IF line.exc \/ number.exc THEN Raised
                    ELSE Parsed(PyValue("int", <<>>, number.n, <<>>), line.pos)
               [] type_byte = "$" ->
                    IF line.exc \/ number.exc THEN Raised
                    ELSE IF number.n = 0 - 1
                    THEN Parsed(PyValue("none", <<>>, 0, <<>>), line.pos)
                    ELSE IF line.pos + number.n > Len(data) THEN Raised
                    ELSE LET text == FromUtf8(SubSeq(data, line.pos + 1,
                                                     line.pos + number.n))
                             after == line.pos + number.n
                         IN  IF text.exc THEN Raised
                             ELSE Parsed(PyValue("str", text.s, 0, <<>>),
                                    IF /\ after + 2 <= Len(data)
                                       /\ SubSeq(data, after + 1, after + 2) = CRLF
                                    THEN after + 2 ELSE after)
               [] type_byte = "*" ->
                    IF line.exc \/ number.exc THEN Raised
                    ELSE IF number.n = 0 - 1
                    THEN Parsed(PyValue("none", <<>>, 0, <<>>), line.pos)
                    ELSE LET items == parse_array_items(data, line.pos, number.n)
                         IN  IF items.exc THEN Raised
                             ELSE Parsed(PyValue("list", <<>>, 0, items.xs), items.pos)
               [] OTHER -> Raised

\* encoding a value and parsing the bytes, as one step on a value not yet
\* encoded
resp_round_trip(v) ==
    /\ last.cmd # "RESP"
    /\ last' = StepArg("-", "RESP", "-", NoReply, <<v, parse(Encode(v), 0)>>)
    /\ UNCHANGED <<store, queues, stream_queues, stream_keys, now, pc, blk, xrd,
                   ready, nextVal, lastSet, ttlSeen, servedLog, callOrder, sent>>

----------------------------------------------------------------------------
(* Specifications *)

Ttls == {None, 0, 1}
Counts == {None, 2}
Timeouts == {0, 1}
Ranges == {<<0, -1>>, <<1, 1>>}
Seqs == {None} \cup 0..MaxSeq
CursorIds == {<<None, None>>} \cup (0..MaxMs) \X Seqs
StreamArgs ==
    {<<Cursor(k, id[1], id[2])>> : k \in Keys, id \in CursorIds}
    \cup {<<Cursor("k1", None, None), Cursor("k2", None, None)>>,
          <<Cursor("k1", 0, 0), Cursor("k2", 0, 0)>>,
          <<Cursor("k1", 1, 0), Cursor("k2", 0, 1)>>}
Blocks == {<<FALSE, 0>>, <<TRUE, 0>>, <<TRUE, 1>>}

\* the commands, for connections CS and keys KS

StringStep(CS, KS) ==
    \E c \in CS, k \in KS :
        \/ \E v \in Values, ttl \in Ttls : handle_set(c, k, v, ttl)
        \/ handle_get(c, k)

PushStep(CS, KS) ==
    \E c \in CS, k \in KS, n \in 1..2 :
        \/ handle_rpush(c, k, n)
        \/ handle_lpush(c, k, n)

PopStep(CS, KS) ==
    \E c \in CS, k \in KS, count \in Counts : handle_lpop(c, k, count)

ListReadStep(CS, KS) ==
    \E c \in CS, k \in KS :
        \/ handle_llen(c, k)
        \/ \E r \in Ranges : handle_lrange(c, k, r[1], r[2])

BlpopStep(CS, KS) ==
    \E c \in CS :
        \/ \E k \in KS, t \in Timeouts : BlpopCall(c, k, t)
        \/ BlpopResume(c)
        \/ BlpopTimeout(c)

XaddStep(CS, KS) ==
    \E c \in CS, k \in KS :
        \/ \E ms \in 0..MaxMs, seq \in Seqs : handle_xadd(c, k, ms, seq)
        \/ handle_xadd_star(c, k)

\* the bounds parse_xrange accepts: -, +, ms and ms-seq
RangeIds == {<<None, None>>} \cup (0..(MaxMs + 1)) \X Seqs

XrangeStep(CS, KS) ==
    \E c \in CS, k \in KS, s \in RangeIds, e \in RangeIds :
        handle_xrange(c, k, s[1], s[2], e[1], e[2])

XreadStep(CS, args) ==
    \E c \in CS :
        \/ \E a \in args, b \in Blocks : XreadCall(c, a, b[1], b[2])
        \/ XreadResume(c)
        \/ XreadTimeout(c)

TypeStep(CS, KS) == \E c \in CS, k \in KS : handle_type(c, k)

\* what one read can hold.  Whole frames, one or two of them:
GetWords == <<"GET", "k1">>
SetWords == <<"SET", "k1", "a">>
OneFrame ==
    {Frame(GetWords), Frame(SetWords), Frame(<<"LLEN", "k1">>),
     Frame(<<"LRANGE", "k1", "0", "-1">>), Frame(<<"XADD", "k2", "1-1", "f", "v">>),
     Frame(<<"SET", "k1", "b", "PX", "1">>)}
TwoFrames ==
    {Frame(SetWords) \o Frame(GetWords), Frame(GetWords) \o Frame(SetWords)}
\* the two parts of a frame that arrives in two reads, cut between two lines
\* (but not where the first part would read as a SET of the key "None")
Cuts(f) == {i \in 1..(Len(f) - 1) : ~(f[3] = Text("SET") /\ i = 3)}
FirstParts == {Take(f, i) : f \in {Frame(GetWords)}, i \in Cuts(Frame(GetWords))}
              \cup {Take(f, i) : f \in {Frame(SetWords)}, i \in Cuts(Frame(SetWords))}
SecondParts == {Drop(f, i) : f \in {Frame(GetWords)}, i \in Cuts(Frame(GetWords))}
               \cup {Drop(f, i) : f \in {Frame(SetWords)}, i \in Cuts(Frame(SetWords))}
\* whole frames that are command errors: unknown command, wrong number of
\* arguments, syntax error, non-integer argument, bad stream ID
BadFrames ==
    {Frame(<<"FOO">>), Frame(<<"GET">>), Frame(<<"GET", "k1", "k2">>),
     Frame(<<"SET", "k1", "a", "EX">>), Frame(<<"SET", "k1", "a", "PX", "abc">>),
     Frame(<<"SET", "k1", "a", "XX", "1">>), Frame(<<"LRANGE", "k1", "a", "b">>),
     Frame(<<"LRANGE", "k1", "0">>), Frame(<<"XADD", "k2", "abc", "f", "v">>),
     Frame(<<"XADD", "k2", "1-1", "f">>)}
Reads == OneFrame \cup TwoFrames \cup FirstParts \cup SecondParts \cup BadFrames

ConnectStep == \E c \in Conns : Connect(c)

\* SET and GET alone, from two connections
NextStr ==
    \/ Tick
    \/ StringStep({"c1", "c2"}, Keys)

SpecStr == Init /\ [][NextStr]_vars

\* BLPOP on one key from three connections, one of which also pushes and pops
NextList ==
    \/ Tick
    \/ PushStep({"c3"}, {"k1"})
    \/ PopStep({"c3"}, {"k1"})
    \/ ListReadStep({"c3"}, {"k1"})
    \/ BlpopStep(Conns, {"k1"})

SpecList == Init /\ [][NextList]_vars

\* two connections that use BLPOP and a third that pushes and pops, with the
\* event loop running every woken task
NextHandoff ==
    \/ Tick
    \/ PushStep({"c3"}, {"k1"})
    \/ PopStep({"c3"}, {"k1"})
    \/ BlpopStep({"c1", "c2"}, {"k1"})

FairHandoff ==
    /\ Init /\ [][NextHandoff]_vars
    /\ WF_vars(\E c \in Conns : BlpopResume(c))

\* the blocking commands: BLPOP on list k1 from one connection, XREAD [BLOCK] on
\* stream k2 from another, and a third that pushes and adds with XADD k2 *
StreamArgsK2 == {<<Cursor("k2", None, None)>>, <<Cursor("k2", 0, 0)>>}

NextBlock ==
    \/ Tick
    \/ PushStep({"c3"}, {"k1"})
    \/ BlpopStep({"c1"}, {"k1"})
    \/ handle_xadd_star("c3", "k2")
    \/ XreadStep({"c2"}, StreamArgsK2)

SpecBlock == Init /\ [][NextBlock]_vars

\* the commands of all three variants on one key from one connection, a second
\* connection that blocks in BLPOP, and reconnection after a closed connection;
\* the clock stands still

NextType ==
    \/ StringStep({"c1"}, {"k1"})
    \/ PushStep({"c1"}, {"k1"})
    \/ PopStep({"c1"}, {"k1"})
    \/ ListReadStep({"c1"}, {"k1"})
    \/ BlpopCall("c1", "k1", 0)
    \/ BlpopCall("c2", "k1", 0)
    \/ BlpopResume("c2")
    \/ handle_xadd_star("c1", "k1")
    \/ TypeStep({"c1"}, {"k1"})
    \/ ConnectStep

SpecType == Init /\ [][NextType]_vars

\* the commands that write the keyspace, on one key: SET, the pushes, LPOP and
\* XADD * from one connection and BLPOP from two; the clock stands still
NextKeys ==
    \/ \E v \in Values : handle_set("c1", "k1", v, None)
    \/ PushStep({"c1"}, {"k1"})
    \/ PopStep({"c1"}, {"k1"})
    \/ BlpopCall("c1", "k1", 0)
    \/ BlpopCall("c2", "k1", 0)
    \/ BlpopResume("c2")
    \/ handle_xadd_star("c1", "k1")
    \/ ConnectStep

SpecKeys == Init /\ [][NextKeys]_vars

\* XADD with explicit, partial and generated IDs on one stream, as time passes
NextXadd ==
    \/ Tick
    \/ XaddStep({"c1"}, {"k1"})

SpecXadd == Init /\ [][NextXadd]_vars

\* the transaction commands and INCR from two connections, SET and GET from
\* the first
NextTxn ==
    \/ \E name \in {"MULTI", "EXEC", "DISCARD"} : no_handler("c1", name, "-")
    \/ \E c \in {"c1", "c2"} : no_handler(c, "INCR", "k1")
    \/ handle_set("c1", "k1", "a", None)
    \/ handle_get("c1", "k1")

SpecTxn == Init /\ [][NextTxn]_vars

\* one connection sends MULTI, INCR and EXEC, another INCR, on a key that
\* nothing else touches
NextAtomic ==
    \/ \E name \in {"MULTI", "EXEC"} : no_handler("c1", name, "-")
    \/ \E c \in {"c1", "c2"} : no_handler(c, "INCR", "k1")

SpecAtomic == Init /\ [][NextAtomic]_vars

\* strings and lists on one key from two connections, so that commands meet
\* values of the other type; the clock stands still
NextCrash ==
    \/ StringStep({"c1", "c2"}, {"k1"})
    \/ PushStep({"c1", "c2"}, {"k1"})
    \/ PopStep({"c1", "c2"}, {"k1"})
    \/ ListReadStep({"c1", "c2"}, {"k1"})

SpecCrash == Init /\ [][NextCrash]_vars

\* two clients blocked in BLPOP on one key, either of which may close its end,
\* and a third that pushes; closed connections reconnect
NextGone ==
    \/ BlpopCall("c1", "k1", 0)
    \/ BlpopCall("c2", "k1", 0)
    \/ \E c \in {"c1", "c2"} : Disconnect(c)
    \/ PushStep({"c3"}, {"k1"})
    \/ \E c \in {"c1", "c2"} : BlpopResume(c)
    \/ ConnectStep

SpecGone == Init /\ [][NextGone]_vars

\* the list commands of one connection on one key that is missing at first or
\* already holds the list [a, b]
InitLists ==
    \E e \in {Absent, PyList(AsElems(<<"a", "b">>))} :
        /\ store = [k \in Keys |-> IF k = "k1" THEN e ELSE Absent]
        /\ queues = [k \in Keys |-> NoQueue]
        /\ stream_queues = [k \in Keys |-> <<>>]
        /\ stream_keys = {}
        /\ now = 0
        /\ pc = [c \in Conns |-> "idle"]
        /\ blk = [c \in Conns |-> NoBlk]
        /\ xrd = [c \in Conns |-> NoXrd]
        /\ ready = <<>>
        /\ last = Step("-", "INIT", "-", NoReply)
        /\ nextVal = 0
        /\ lastSet = [k \in Keys |-> [set |-> FALSE, value |-> "", expiry |-> None]]
        /\ ttlSeen = [k \in Keys |-> None]
        /\ servedLog = <<>>
        /\ callOrder = <<>>
        /\ sent = [c \in Conns |-> <<>>]

Indices == (0 - MaxIndex)..MaxIndex

NextLists ==
    \/ PushStep({"c1"}, {"k1"})
    \/ PopStep({"c1"}, {"k1"})
    \/ handle_llen("c1", "k1")
    \/ \E start \in Indices, stop \in Indices : handle_lrange("c1", "k1", start, stop)

SpecLists == InitLists /\ [][NextLists]_vars

\* SET with and without expiry, GET and TYPE from two connections on one key,
\* as time passes
NextExpire ==
    \/ Tick
    \/ StringStep({"c1", "c2"}, {"k1"})
    \/ TypeStep({"c1", "c2"}, {"k1"})

SpecExpire == Init /\ [][NextExpire]_vars

\* a master with one client that writes and two connections that ask to
\* become replicas
NextRepl ==
    \/ \E c \in {"c2", "c3"} : no_handler(c, "PSYNC", "-")
    \/ \E v \in Values : handle_set("c1", "k1", v, None)
    \/ PushStep({"c1"}, {"k2"})
    \/ PopStep({"c1"}, {"k2"})
    \/ handle_get("c1", "k1")

SpecRepl == Init /\ [][NextRepl]_vars

\* two clients that block in BLPOP on k1, the second also in XREAD BLOCK on
\* k2, all without a timeout, and a third that pushes to k1 and adds to k2;
\* the clock stands still
NextWait ==
    \/ \E c \in {"c1", "c2"} : BlpopCall(c, "k1", 0)
    \/ \E c \in {"c1", "c2"} : BlpopResume(c)
    \/ \E id \in {None, 0} : XreadCall("c2", <<Cursor("k2", id, id)>>, TRUE, 0)
    \/ XreadResume("c2")
    \/ PushStep({"c3"}, {"k1"})
    \/ handle_xadd_star("c3", "k2")

SpecWait == Init /\ [][NextWait]_vars

\* c1 waits in BLPOP on k1, c2 in XREAD BLOCK on k1 or on both keys, c3
\* writes both keys
NextIndep ==
    \/ BlpopCall("c1", "k1", 0)
    \/ BlpopResume("c1")
    \/ \E a \in {<<Cursor("k1", None, None)>>,
                  <<Cursor("k1", None, None), Cursor("k2", None, None)>>} :
          XreadCall("c2", a, TRUE, 0)
    \/ XreadResume("c2")
    \/ \E k \in Keys : handle_rpush("c3", k, 1)
    \/ handle_xadd_star("c3", "k2")
    \/ handle_set("c3", "k1", "a", None)

SpecIndep == Init /\ [][NextIndep]_vars

\* c1 reads while c3 writes and c2 waits on k2
NextRead ==
    \/ Tick
    \/ handle_set("c3", "k1", "a", 0)
    \/ handle_rpush("c3", "k2", 1)
    \/ handle_xadd_star("c3", "k1")
    \/ BlpopCall("c2", "k2", 0)
    \/ BlpopResume("c2")
    \/ XreadCall("c2", <<Cursor("k1", None, None)>>, TRUE, 0)
    \/ XreadResume("c2")
    \/ handle_ping("c1")
    \/ handle_echo("c1", "a")
    \/ \E k \in Keys : handle_get("c1", k) \/ handle_type("c1", k)
    \/ handle_llen("c1", "k2")
    \/ handle_lrange("c1", "k2", 0, 0 - 1)
    \/ handle_xrange("c1", "k1", None, None, None, None)
    \/ XreadCall("c1", <<Cursor("k1", 0, 0)>>, FALSE, 0)

SpecRead == Init /\ [][NextRead]_vars

\* the values that are encoded: strings of up to MaxText characters, small
\* integers, null, arrays of up to MaxItems of those, and such an array
\* inside an array
Texts == UNION {[1..n -> Chars] : n \in 0..MaxText}
Scalars ==
    {RespValue("simple", s, 0, <<>>) : s \in {<<>>, <<"a">>}}
    \cup {RespValue("int", <<>>, n, <<>>) : n \in {0 - 1, 0, 1}}
    \cup {RespValue("bulk", s, 0, <<>>) : s \in Texts}
    \cup {RespValue("null", <<>>, 0, <<>>)}
FlatArrays ==
    {RespValue("array", <<>>, 0, xs) : xs \in UNION {[1..n -> Scalars] : n \in 0..MaxItems}}
RespValues ==
    Scalars \cup FlatArrays \cup {RespValue("array", <<>>, 0, <<a>>) : a \in FlatArrays}

NextResp == \E v \in RespValues : resp_round_trip(v)

SpecResp == Init /\ [][NextResp]_vars

\* the reads of one connection
NextWire ==
    \/ Tick
    \/ \E data \in Reads : receive("c1", data)

SpecWire == Init /\ [][NextWire]_vars

\* XADD and XRANGE on one stream
NextXrange ==
    \/ XaddStep({"c1"}, {"k1"})
    \/ XrangeStep({"c1"}, {"k1"})

SpecXrange == Init /\ [][NextXrange]_vars

\* XREAD without BLOCK over two streams, the clock standing still
NextXread ==
    \/ XaddStep({"c1"}, {"k1"})
    \/ handle_xadd_star("c1", "k2")
    \/ \E a \in StreamArgs : XreadCall("c1", a, FALSE, 0)

SpecXread == Init /\ [][NextXread]_vars

\* two clients in XREAD BLOCK 0 and a third that adds entries, the clock
\* standing still
WakeArgs ==
    {<<Cursor("k1", None, None)>>,
     <<Cursor("k1", MaxMs, 0)>>,
     <<Cursor("k1", None, None), Cursor("k2", None, None)>>,
     <<Cursor("k2", 0, 0), Cursor("k1", 0, 0)>>}

NextWake ==
    \/ \E ms \in 0..MaxMs : handle_xadd("c3", "k1", ms, None)
    \/ handle_xadd_star("c3", "k2")
    \/ \E c \in {"c1", "c2"}, a \in WakeArgs : XreadCall(c, a, TRUE, 0)
    \/ \E c \in {"c1", "c2"} : XreadResume(c)

SpecWake == Init /\ [][NextWake]_vars

\* a client in XREAD BLOCK with and without a timeout, a second in XREAD
\* BLOCK 0 on k1 and a third that adds entries, as time passes
NextXblock ==
    \/ Tick
    \/ \E k \in Keys : handle_xadd_star("c3", k)
    \/ \E a \in WakeArgs, ms \in Timeouts : XreadCall("c1", a, TRUE, ms)
    \/ XreadCall("c2", <<Cursor("k1", None, None)>>, TRUE, 0)
    \/ \E c \in {"c1", "c2"} : XreadResume(c)
    \/ \E c \in {"c1", "c2"} : XreadTimeout(c)

SpecXblock == Init /\ [][NextXblock]_vars

----------------------------------------------------------------------------
(* Properties of SET and GET *)

\* what GET must reply at time t after the SET recorded in ls
Expected(ls, t) ==
    IF ls.set /\ (ls.expiry = None \/ ~(t > ls.expiry)) THEN Bulk(ls.value)
    ELSE NullBulk

\* C1: a GET replies the value of the most recent SET of the key when that SET
\* gave no expiry or the clock is not past its set time plus TTL, and the null
\* bulk string otherwise; a SET without expiry clears the TTL of an earlier SET.
C1_GetReturnsLatestSet ==
    last.cmd = "GET" => last.reply = Expected(lastSet[last.key], now)

\* a GET replies the value of a SET without expiry after the expiry that an
\* earlier SET of the same key had given has passed
C1_Witness ==
    /\ last.cmd = "GET"
    /\ lastSet[last.key].set /\ lastSet[last.key].expiry = None
    /\ ttlSeen[last.key] # None /\ ttlSeen[last.key] < now
    /\ last.reply = Bulk(lastSet[last.key].value)

----------------------------------------------------------------------------
(* Properties of BLPOP *)

\* this step is the task of c running again after its getter was woken
IsResume(c) ==
    /\ pc[c] = "blpop_woken"
    /\ last'.cmd = "BLPOP_RESUME" /\ last'.c = c
    /\ ready' # ready

\* this step is a BLPOP of an idle connection that takes an item from the queue
IsTake(k) ==
    /\ last'.cmd = "BLPOP" /\ last'.key = k
    /\ last'.reply.t = "array"
    /\ queues[k].items # <<>> /\ queues'[k].items = Tail(queues[k].items)
    /\ store' = store

\* C2: a value handed to a blocked BLPOP client is consumed from the list: it
\* is no longer an element of the list that LLEN, LRANGE and LPOP work on.
C2_ServedValueConsumed ==
    (last.cmd = "BLPOP_RESUME" /\ last.reply.t = "array")
        => PyStr(last.reply.xs[2].s) \notin Range(store[last.key].elems)

\* C3: a single value pushed while two or more clients are blocked
\* on the key goes to one of those clients, so no BLPOP issued afterwards by
\* another connection takes it.
C3_ExactlyOneBlockedClient ==
    [][\A k \in Keys :
         IsTake(k) =>
            ~\E a \in Conns :
                /\ pc[a] = "blpop_woken" /\ blk[a].key = k
                /\ blk[a].peers >= 2 /\ blk[a].batch = 1
                /\ blk[a].due = Head(queues[k].items)]_vars

\* C4: a blocked client is served only when no client that blocked
\* on the key before it is still blocked.
C4_LongestWaitingFirst ==
    [][\A c \in Conns :
         (IsResume(c) /\ last'.reply.t = "array")
            => \A i, j \in 1..Len(callOrder) :
                 (callOrder[j] = c /\ i < j)
                    => blk[callOrder[i]].key # blk[c].key]_vars

\* C5: a client blocked alone in BLPOP k 0 that a push of one value
\* v wakes replies [k, v] when its task runs.
C5_ReceivesPushedValue ==
    [][\A c \in Conns :
         (IsResume(c) /\ blk[c].timeout = 0 /\ blk[c].peers = 1 /\ blk[c].batch = 1)
            => last'.reply = Arr(<<Bulk(blk[c].key), Bulk(blk[c].due)>>)]_vars

\* C6: a BLPOP on an empty or missing key returns only a value pushed after
\* the BLPOP was issued.
C6_OnlyLaterPushes ==
    \A i \in 1..Len(servedLog) : IdxOf(servedLog[i].val) > servedLog[i].floor

\* C7: a BLPOP with a positive timeout that times out, and an XREAD BLOCK with
\* a positive timeout that times out with no entry added to its streams, reply
\* the null array, leave the keyspace unchanged and keep the connection open.
C7_TimeoutRepliesNullArray ==
    [][\A c \in Conns :
         /\ (last'.cmd = "BLPOP_TIMEOUT" /\ last'.c = c)
                => /\ blk[c].timeout > 0
                   /\ last'.reply = NullArr
                   /\ store' = store
                   /\ pc'[c] = "idle"
         /\ (last'.cmd = "XREAD_TIMEOUT" /\ last'.c = c /\ pc[c] = "xread_wait")
                => /\ xrd[c].deadline # None
                   /\ last'.reply = NullArr
                   /\ store' = store
                   /\ pc'[c] = "idle"]_vars

\* a BLPOP to which no value was pushed has timed out with the null array
C7_Witness ==
    /\ last.cmd = "BLPOP_TIMEOUT" /\ last.reply = NullArr
    /\ nextVal = 0 /\ store[last.key] = Absent
    /\ pc[last.c] = "idle"

\* C8: a BLPOP on a key holding a non-empty list does not suspend: it replies
\* [key, head], removes exactly the head and deletes the key when the list
\* becomes empty.
C8_NonEmptyPopsHead ==
    [][\A c \in Conns, k \in Keys :
         (/\ last'.cmd = "BLPOP" /\ last'.c = c /\ last'.key = k
          /\ pc[c] = "idle"
          /\ store[k].kind = "list" /\ store[k].elems # <<>>)
            => /\ last'.reply = Arr(<<Bulk(k), Bulk(Head(store[k].elems).s)>>)
               /\ pc'[c] = "idle"
               /\ store'[k] = IF Len(store[k].elems) = 1 THEN Absent
                              ELSE PyList(Tail(store[k].elems))
               /\ \A j \in Keys \ {k} : store'[j] = store[j]
               /\ queues' = queues]_vars

\* a BLPOP has popped the head of a list that keeps further elements
C8_Witness ==
    /\ last.cmd = "BLPOP" /\ last.reply.t = "array"
    /\ store[last.key].kind = "list" /\ store[last.key].elems # <<>>
    /\ pc[last.c] = "idle"

----------------------------------------------------------------------------
(* Properties of the keyspace variants *)

\* the reply Redis gives to a command on a key of another variant
WrongType == Reply("wrongtype", "WRONGTYPE Operation against a key holding the wrong kind of value", 0, <<>>)

\* the variant a command works on
Required(cmd) ==
    CASE cmd = "GET" -> "string"
      [] cmd \in {"RPUSH", "LPUSH", "LPOP", "LLEN", "LRANGE", "BLPOP"} -> "list"
      [] cmd \in {"XADD", "XREAD"} -> "stream"
      [] OTHER -> "any"

\* C9: a command issued on a key that holds another variant than the one it
\* works on replies WRONGTYPE and leaves the keyspace unchanged.
C9_WrongTypeRejected ==
    [][\A k \in Keys :
         (/\ last'.key = k /\ last'.c \in Conns
          /\ pc[last'.c] = "idle"
          /\ Required(last'.cmd) # "any"
          /\ TypeName(store[k]) \notin {"none", Required(last'.cmd)})
            => last'.reply = WrongType /\ store' = store]_vars

\* C10: the TYPE of a key does not change unless the key is deleted or SET.
C10_TypePreserved ==
    [][\A k \in Keys :
         (/\ TypeName(store[k]) # "none" /\ TypeName(store'[k]) # "none"
          /\ ~(last'.cmd = "SET" /\ last'.key = k))
            => TypeName(store'[k]) = TypeName(store[k])]_vars

\* C11: every key that holds a list or a stream holds at least one element, so
\* a list emptied by LPOP or BLPOP is gone from the keyspace and its TYPE is
\* none.
C11_NoEmptyCollection ==
    \A k \in Keys :
        /\ store[k].kind = "list" => store[k].elems # <<>>
        /\ store[k].elems = <<>> => TypeName(store[k]) = "none"

\* an LPOP or BLPOP has popped the last element and the key is gone
C11_Witness ==
    /\ last.cmd \in {"LPOP", "BLPOP"}
    /\ last.reply.t \in {"bulk", "array"}
    /\ store[last.key] = Absent

----------------------------------------------------------------------------
(* Properties of streams *)

\* (ms1, seq1) < (ms2, seq2) in the lexicographic order
IdLess(ms1, seq1, ms2, seq2) == ms1 < ms2 \/ (ms1 = ms2 /\ seq1 < seq2)

\* the entries of a stored list
Entries(e) == SelectSeq(e.elems, LAMBDA x : x.t = "entry")

\* the key holds a stream with at least one entry
NonEmptyStream(k) == store[k].kind = "list" /\ store[k].elems # <<>> /\ IsStreamList(store[k])

\* C12: the entry IDs of every stream are unique and strictly increasing in
\* the lexicographic order on (ms, seq), whatever kinds of ID XADD was given.
C12_IdsStrictlyIncreasing ==
    \A k \in Keys :
        LET es == Entries(store[k])
        IN  \A i, j \in 1..Len(es) :
                i < j => IdLess(es[i].ms, es[i].seq, es[j].ms, es[j].seq)

\* a stream holds an entry with an explicit ID and, after it, one with a
\* generated sequence number
C12_Witness ==
    /\ last.cmd = "XADD" /\ last.reply.t = "bulk" /\ last.arg[2] = None
    /\ Len(Entries(store[last.key])) >= 2

\* C13: XADD with an explicit ID ms-seq that is not greater than the last ID of
\* a non-empty stream replies the "equal or smaller" error and leaves the
\* stream unchanged; the requested ID is never replaced by another one.
C13_ExplicitIdRejected ==
    [][\A c \in Conns, k \in Keys, ms \in 0..MaxMs, seq \in 0..MaxSeq :
         (/\ handle_xadd(c, k, ms, seq)
          /\ ~(ms = 0 /\ seq = 0)
          /\ NonEmptyStream(k)
          /\ ~IdLess(Last(store[k].elems).ms, Last(store[k].elems).seq, ms, seq))
            => last'.reply = XaddTooSmall /\ store' = store]_vars

\* the ID the fully generated form is to produce on a non-empty stream
StarId(k) ==
    LET l == Last(store[k].elems)
        ms == Max(now, l.ms)
    IN  PyEntry(ms, IF ms = l.ms THEN l.seq + 1 ELSE 0)

\* C14: XADD * on a non-empty stream always succeeds with id_ms = max(now,
\* last_ms) and id_seq = last_seq + 1 when id_ms = last_ms, else 0, also when
\* the clock reads earlier than the last ID.
C14_StarAlwaysSucceeds ==
    [][\A c \in Conns, k \in Keys :
         (handle_xadd_star(c, k) /\ NonEmptyStream(k))
            => /\ last'.reply = IdBulk(StarId(k).ms, StarId(k).seq)
               /\ store'[k] = PyList(Append(store[k].elems, StarId(k)))]_vars

\* the sequence number the partial form ms-* is to generate
PartialSeq(k, ms) ==
    IF Falsy(store[k])
    THEN IF ms = 0 THEN 1 ELSE 0
    ELSE IF ms = Last(store[k].elems).ms THEN Last(store[k].elems).seq + 1
    ELSE 0

\* C15: XADD ms-* generates id_seq = last_seq + 1 when ms is the last entry's
\* ms, 1 when ms is 0 and the stream is empty, 0 otherwise; it replies
\* "ms-id_seq" and that entry becomes the last entry of the stream.
C15_PartialIdGenerated ==
    [][\A c \in Conns, k \in Keys, ms \in 0..MaxMs :
         (handle_xadd(c, k, ms, None) /\ (Falsy(store[k]) \/ NonEmptyStream(k)))
            => /\ last'.reply = IdBulk(ms, PartialSeq(k, ms))
               /\ store'[k] = PyList(Append(store[k].elems,
                                            PyEntry(ms, PartialSeq(k, ms))))]_vars

\* C15, amended: the same when ms is not below the last entry's ms; when it is
\* below, XADD ms-* replies the "equal or smaller" error and the stream is
\* unchanged.
C15_PartialIdGeneratedOrRejected ==
    [][\A c \in Conns, k \in Keys, ms \in 0..MaxMs :
         (handle_xadd(c, k, ms, None) /\ (Falsy(store[k]) \/ NonEmptyStream(k)))
            => IF NonEmptyStream(k) /\ ms < Last(store[k].elems).ms
               THEN last'.reply = XaddTooSmall /\ store' = store
               ELSE /\ last'.reply = IdBulk(ms, PartialSeq(k, ms))
                    /\ store'[k] = PyList(Append(store[k].elems,
                                                 PyEntry(ms, PartialSeq(k, ms))))]_vars

\* XADD ms-* has generated a sequence number above 0 for the ms of the last entry
C15_Witness ==
    /\ last.cmd = "XADD" /\ last.reply.t = "bulk" /\ last.arg[2] = None
    /\ LET es == store[last.key].elems
       IN  /\ Len(es) >= 2
           /\ es[Len(es)].ms = es[Len(es) - 1].ms
           /\ es[Len(es)].seq = es[Len(es) - 1].seq + 1

\* the lowest ID a start bound admits and the highest ID an end bound admits,
\* as pairs <<ms, seq>>
RangeLo(k, s_ms, s_seq) ==
    IF s_ms = None THEN <<store[k].elems[1].ms, store[k].elems[1].seq>>
    ELSE <<s_ms, IF s_seq = None THEN 0 ELSE s_seq>>

RangeHi(k, e_ms, e_seq) ==
    IF e_ms = None THEN <<Last(store[k].elems).ms, Last(store[k].elems).seq>>
    ELSE <<e_ms, IF e_seq = None THEN MaxSeq + MaxStream + 1 ELSE e_seq>>

IdLeq(ms1, seq1, ms2, seq2) == ms1 < ms2 \/ (ms1 = ms2 /\ seq1 <= seq2)

InRange(k, s_ms, s_seq, e_ms, e_seq) ==
    SelectSeq(store[k].elems,
        LAMBDA x : /\ IdLeq(RangeLo(k, s_ms, s_seq)[1], RangeLo(k, s_ms, s_seq)[2],
                            x.ms, x.seq)
                   /\ IdLeq(x.ms, x.seq,
                            RangeHi(k, e_ms, e_seq)[1], RangeHi(k, e_ms, e_seq)[2]))

\* the reply that lists exactly the entries of stream k within the bounds
RangeReply(k, s_ms, s_seq, e_ms, e_seq) ==
    LET ids == InRange(k, s_ms, s_seq, e_ms, e_seq)
    IN  Arr([j \in 1..Len(ids) |-> IdBulk(ids[j].ms, ids[j].seq)])

\* C16: XRANGE k start end on a stream replies, in stream order, exactly the
\* entries with start <= id <= end, where - is the first entry, + the last, a
\* start without sequence number has 0 and an end without one the maximum; also
\* for bounds with ms 0 or outside the stream's IDs.  (XRANGE leaves the store
\* as it is, so the stream of the state after the step is the one it read.)
C16_XrangeExactlyInRange ==
    (last.cmd = "XRANGE" /\ NonEmptyStream(last.key))
        => last.reply = RangeReply(last.key, last.arg[1], last.arg[2],
                                   last.arg[3], last.arg[4])

\* C16 for bounds that are -, + or have ms above 0
C16_XrangePositiveMs ==
    (/\ last.cmd = "XRANGE" /\ NonEmptyStream(last.key)
     /\ last.arg[1] # 0 /\ last.arg[3] # 0)
        => last.reply = RangeReply(last.key, last.arg[1], last.arg[2],
                                   last.arg[3], last.arg[4])

\* the entries of stream k after the cursor st, $ standing for the last ID
AfterCursor(st) ==
    IF st.ms = None THEN <<>>
    ELSE SelectSeq(Entries(store[st.key]),
            LAMBDA x : IdLess(st.ms, IF st.seq = None THEN 0 ELSE st.seq, x.ms, x.seq))

\* the reply that lists, per requested stream with entries after its cursor,
\* the key and those entries
ReadReply(streams) ==
    LET hit == SelectSeq(streams, LAMBDA st : AfterCursor(st) # <<>>)
    IN  IF hit = <<>> THEN NullArr
        ELSE Arr([i \in 1..Len(hit) |->
                    Arr(<<Bulk(hit[i].key),
                          Arr([j \in 1..Len(AfterCursor(hit[i])) |->
                                 IdBulk(AfterCursor(hit[i])[j].ms,
                                        AfterCursor(hit[i])[j].seq)])>>)])

\* C17: XREAD replies, for each requested (key, last_id), exactly the entries
\* of that stream with an ID strictly greater than last_id, in stream order;
\* streams without such an entry are omitted and the reply is the null array
\* when no stream has one.  (XREAD leaves the store as it is.)
C17_XreadStrictlyGreater ==
    (last.cmd = "XREAD" /\ last.reply # Pending)
        => last.reply = ReadReply(last.arg)

\* an XREAD over two streams has returned entries of one stream and none of the
\* other, leaving an older entry of the first out
C17_Witness ==
    /\ last.cmd = "XREAD" /\ Len(last.arg) = 2
    /\ last.reply.t = "array" /\ Len(last.reply.xs) = 1
    /\ \E i \in 1..2 :
          /\ AfterCursor(last.arg[i]) # <<>>
          /\ Len(AfterCursor(last.arg[i])) < Len(store[last.arg[i].key].elems)

\* the entries a resumed XREAD is to deliver for the cursor st of its call: a
\* $ that is still open was given before the stream existed, so every entry of
\* the stream was added after the call
AddedSince(st) ==
    IF st.ms = None THEN Entries(store[st.key]) ELSE AfterCursor(st)

\* the IDs a reply of XREAD lists under key k
RepliedIds(r, k) ==
    IF r.t # "array" THEN {}
    ELSE UNION {Range(r.xs[i].xs[2].xs) : i \in {j \in 1..Len(r.xs) : r.xs[j].xs[1] = Bulk(k)}}

\* C18: a client blocked in XREAD BLOCK with $ is given, when it returns, every
\* entry added to the stream since the call, also when the stream did not exist
\* at the call (stated for the step at which the woken client returns).
C18_DollarFixedAtCall ==
    last.cmd = "XREAD_RESUME"
        => \A i \in 1..Len(last.arg) :
              last.arg[i].ms = None
                 => \A x \in Range(Entries(store[last.arg[i].key])) :
                       IdBulk(x.ms, x.seq) \in RepliedIds(last.reply, last.arg[i].key)

\* C19: a client blocked in XREAD BLOCK 0 whose cursors are all fixed returns
\* after a wake-up only with a non-empty result, never with the null array.
C19_WokenReturnsNonEmpty ==
    (last.cmd = "XREAD_RESUME" /\ \A i \in 1..Len(last.arg) : last.arg[i].ms # None)
        => last.reply # NullArr

\* the keys a suspended XREAD watches
Watched(c) == {xrd[c].streams[i].key : i \in 1..Len(xrd[c].streams)}

\* one XADD to k leaves no client that watches k suspended without a wake-up
BroadcastWake ==
    (last.cmd = "XADD" /\ last.reply.t = "bulk")
        => \A c \in Conns : pc[c] = "xread_wait" => last.key \notin Watched(c)

\* a woken client is given the entries above its cursor, an open $ counting as
\* a cursor below every ID
WokenReceives ==
    last.cmd = "XREAD_RESUME"
        => \A i \in 1..Len(last.arg) :
              \A x \in Range(AddedSince(last.arg[i])) :
                 IdBulk(x.ms, x.seq) \in RepliedIds(last.reply, last.arg[i].key)

\* C20: one XADD to k wakes every client blocked in XREAD BLOCK that watches k,
\* also among several keys, and each woken client whose cursor is below the new
\* ID is given the new entry under key k.
C20_BroadcastWakeUp == BroadcastWake /\ WokenReceives

\* the same for woken clients whose cursors are all fixed
C20_BroadcastFixedCursors ==
    /\ BroadcastWake
    /\ (last.cmd = "XREAD_RESUME" /\ \A i \in 1..Len(last.arg) : last.arg[i].ms # None)
          => \A i \in 1..Len(last.arg) :
                \A x \in Range(AfterCursor(last.arg[i])) :
                   IdBulk(x.ms, x.seq) \in RepliedIds(last.reply, last.arg[i].key)

\* one XADD has woken two clients, one of them watching two keys
TwoWoken ==
    /\ last.cmd = "XADD" /\ last.reply.t = "bulk"
    /\ pc["c1"] = "xread_woken" /\ pc["c2"] = "xread_woken"
    /\ \E c \in {"c1", "c2"} : Cardinality(Watched(c)) = 2

----------------------------------------------------------------------------
(* Properties of the connection driver *)

\* the transaction state the specification gives a connection that has sent
\* the commands h: open from a MULTI to the next EXEC or DISCARD
TxnOpen(h) ==
    \E i \in 1..Len(h) :
        /\ h[i] = "MULTI"
        /\ \A j \in (i + 1)..Len(h) : h[j] \notin {"EXEC", "DISCARD"}

\* C21: MULTI replies +OK and opens a queue; while it is open every command
\* other than MULTI, EXEC and DISCARD replies +QUEUED and leaves the keyspace
\* as it is; EXEC replies the array of the queued commands' replies and
\* DISCARD replies +OK, both closing the queue.
C21_TransactionStateMachine ==
    [][\A c \in Conns :
         last'.c = c =>
            /\ (last'.cmd = "MULTI" /\ ~TxnOpen(sent[c]))
                  => last'.reply = Simple("OK")
            /\ (last'.cmd \in {"SET", "GET", "INCR"} /\ TxnOpen(sent[c]))
                  => last'.reply = Simple("QUEUED") /\ store' = store
            /\ (last'.cmd = "EXEC" /\ TxnOpen(sent[c]))
                  => last'.reply.t = "array"
            /\ (last'.cmd = "DISCARD" /\ TxnOpen(sent[c]))
                  => last'.reply = Simple("OK")]_vars

\* C22: when c1 has sent MULTI, INCR k, INCR k, EXEC and c2 has sent INCR k,
\* on a fresh key and in whatever order the two were served, k holds 3 and the
\* reply to c1's EXEC is [1, 2] or [2, 3].
C22_ExecAtomic ==
    (sent["c1"] = <<"MULTI", "INCR", "INCR", "EXEC">> /\ sent["c2"] = <<"INCR">>)
        => /\ store["k1"] = StringEntry("3", None)
           /\ (last.c = "c1" /\ last.cmd = "EXEC")
                 => last.reply \in {Arr(<<Integer(1), Integer(2)>>),
                                    Arr(<<Integer(2), Integer(3)>>)}

\* C23: EXEC and DISCARD without an open transaction and MULTI inside one reply
\* their own error and change neither the keyspace nor the wait registry.
C23_TransactionMisuse ==
    [][\A c \in Conns :
         (last'.c = c /\ last'.cmd \in {"MULTI", "EXEC", "DISCARD"})
            => /\ (last'.cmd = "EXEC" /\ ~TxnOpen(sent[c]))
                     => last'.reply = Err("EXEC without MULTI")
               /\ (last'.cmd = "DISCARD" /\ ~TxnOpen(sent[c]))
                     => last'.reply = Err("DISCARD without MULTI")
               /\ (last'.cmd = "MULTI" /\ TxnOpen(sent[c]))
                     => last'.reply = Err("MULTI calls can not be nested")
               /\ (last'.cmd = "MULTI" <=> TxnOpen(sent[c]))
                     => UNCHANGED <<store, queues, stream_queues, stream_keys>>]_vars

\* the part of C23 that does not name the message: the reply is an error and
\* nothing changes
C23_MisuseIsSomeError ==
    [][\A c \in Conns :
         (/\ last'.c = c /\ last'.cmd \in {"MULTI", "EXEC", "DISCARD"}
          /\ (last'.cmd = "MULTI" <=> TxnOpen(sent[c])))
            => /\ last'.reply.t = "error"
               /\ UNCHANGED <<store, queues, stream_queues, stream_keys, pc>>]_vars

\* C24: every complete frame is processed once and in arrival order, with one
\* reply per frame, also when one read holds several frames.  Stated for a read
\* that holds SET k1 a and GET k1: both are processed, in that order, so the
\* reply written last is the GET's and it carries what the SET stored (or the
\* SET's, with the value stored, when the GET came first).
C24_EveryFrameProcessed ==
    [][\A c \in Conns :
         /\ receive(c, Frame(SetWords) \o Frame(GetWords))
               => /\ store'["k1"] = StringEntry("a", None)
                  /\ last' = Step(c, "GET", "k1", Bulk("a"))
         /\ receive(c, Frame(GetWords) \o Frame(SetWords))
               => /\ store'["k1"] = StringEntry("a", None)
                  /\ last' = Step(c, "SET", "k1", Simple("OK"))]_vars

\* C25: the first part of a frame that arrives in two reads is kept until the
\* rest arrives: no reply is written for it and nothing is executed.
C25_PartialFrameBuffered ==
    [][\A c \in Conns, data \in FirstParts :
         receive(c, data) => UNCHANGED <<last, store, pc>>]_vars

\* C26: a command the parsers reject (unknown command, wrong number of
\* arguments, syntax error, non-integer argument, bad stream ID) gets one
\* error reply, changes neither the keyspace nor the registries of waiting
\* clients, and leaves the connection open for its next command.
C26_CommandErrorContinues ==
    [][\A c \in Conns, data \in BadFrames :
         receive(c, data)
            => /\ last'.c = c /\ last'.cmd = "ERROR" /\ last'.reply.t = "error"
               /\ sent'[c] = Append(sent[c], "ERROR")
               /\ UNCHANGED <<store, queues, stream_queues, stream_keys, blk, xrd, ready>>
               /\ pc' = pc /\ pc'[c] = "idle"]_vars

\* a connection that was answered an error has had a later SET and then a GET
\* served with the value it stored
C26_Witness ==
    /\ sent["c1"] # <<>>
    /\ sent["c1"][Len(sent["c1"])] = "ERROR"
    /\ lastSet["k1"].set
    /\ last = Step("c1", "GET", "k1", Bulk("a"))

\* C27: an exception raised while one connection's command is handled closes
\* that connection at most.  No step of one connection's command ends
\* a connection that is not its own: a connection is closed only by its own
\* raising command, and an idle connection stays ready for its next command.
C27_OnlyOwnConnectionCloses ==
    [][\A c \in Conns :
         /\ (pc'[c] = "closed" /\ pc[c] # "closed")
               => (last'.c = c /\ last'.reply = Exc)
         /\ (c # last'.c /\ Idle(c)) => pc'[c] = "idle"]_vars

\* after c1 was closed by an exception, c2 has been served the list that is
\* in the keyspace
C27_Witness ==
    /\ pc["c1"] = "closed"
    /\ pc["c2"] = "idle"
    /\ last.c = "c2" /\ last.cmd = "LRANGE" /\ last.reply.t = "array"
    /\ last.reply.xs # <<>>

\* C29: what BLPOP registers for a key lasts as long as the call.  When no
\* BLPOP on k is suspended, nothing pushed to k is held for a waiter: the
\* values of a push are in the list only.
Suspended(k) ==
    {c \in Conns : pc[c] \in {"blpop_wait", "blpop_woken"} /\ blk[c].key = k}

C29_RegistryScopedToCall ==
    \A k \in Keys : Suspended(k) = {} => queues[k].items = <<>>

\* C30: for a key that holds a list, and for a missing key, LLEN k replies the
\* number of elements LRANGE k 0 -1 replies, and both are 0 for a missing key.
\* LLEN changes nothing, so the state after it is the one it was asked in.
IsListKey(k) ==
    \/ store[k].kind = "absent"
    \/ /\ store[k].kind = "list"
       /\ \A i \in 1..Len(store[k].elems) : store[k].elems[i].t = "str"

C30_LlenMatchesLrange ==
    \A k \in Keys :
        IsListKey(k) =>
            LET all == LrangeResult(store[k], 0, -1)
            IN  /\ all.t = "array"
                /\ LlenResult(store[k]) = Integer(Len(all.xs))
                /\ store[k].kind = "absent" => all.xs = <<>>
                /\ (last.cmd = "LLEN" /\ last.key = k)
                      => last.reply = Integer(Len(all.xs))

\* LLEN has replied 2 for a list of two pushed values
C30_Witness ==
    /\ last.cmd = "LLEN" /\ last.key = "k1" /\ last.reply = Integer(2)
    /\ store["k1"].kind = "list"
    /\ LrangeResult(store["k1"], 0, -1) = Arr(<<Bulk(Val(1)), Bulk(Val(2))>>)

\* C28: a blocked client whose connection closed is no longer a waiter: a
\* value pushed afterwards is never handed to it.
C28_ClosedWaiterGetsNothing ==
    [][\A c \in Conns :
         (blk[c].gone /\ last'.c = c /\ last'.cmd = "BLPOP_RESUME")
            => last'.reply.t # "array"]_vars

----------------------------------------------------------------------------
(* Properties of the list commands *)

\* what LRANGE k 0 -1 replies in the current state
Whole(e) == LrangeResult(e, 0, -1).xs

\* C31: RPUSH k v1..vn appends the values in argument order, LPUSH k v1..vn
\* puts them at the head with vn leftmost; both reply the new length and keep
\* the elements the list had, in their order.  The n values of a push are
\* Val(nextVal + 1) .. Val(nextVal + n).
C31_PushOrder ==
    [][\A k \in Keys :
         (last'.cmd \in {"RPUSH", "LPUSH"} /\ last'.key = k /\ last'.reply # Exc)
            => LET n == nextVal' - nextVal
                   vs == [i \in 1..n |-> Bulk(Val(nextVal + i))]
               IN  /\ n >= 1
                   /\ last'.reply = Integer(Len(Whole(store[k])) + n)
                   /\ last'.cmd = "RPUSH" => Whole(store'[k]) = Whole(store[k]) \o vs
                   /\ last'.cmd = "LPUSH"
                         => Whole(store'[k]) = Reverse(vs) \o Whole(store[k])]_vars

\* LPUSH k1 v1 v2 on the list [a, b] left [v2, v1, a, b]
C31_Witness ==
    /\ last = Step("c1", "LPUSH", "k1", Integer(4))
    /\ Whole(store["k1"]) = <<Bulk("v2"), Bulk("v1"), Bulk("a"), Bulk("b")>>

\* C32: LPOP k removes the head and replies it as a bulk string (the null
\* bulk when the list is empty or missing); LPOP k count removes the first
\* min(count, len) elements and replies them, in list order, as an array.
\* An empty or missing list is given the null bulk with a count as well.
C32_LpopCount ==
    [][\A c \in Conns, k \in Keys, count \in Counts :
         (handle_lpop(c, k, count) /\ IsListKey(k))
            => LET old == Whole(store[k])
                   n == Min(IF count = None THEN 1 ELSE count, Len(old))
               IN  /\ Whole(store'[k]) = Drop(old, n)
                   /\ last'.reply =
                         IF old = <<>> THEN NullBulk
                         ELSE IF count # None THEN Arr(Take(old, n))
                         ELSE old[1]]_vars

----------------------------------------------------------------------------
(* Properties of reads *)

\* the key holds a string whose expiry has passed
ExpiredKey(k) ==
    /\ store[k].kind = "tuple" /\ Len(store[k].elems) = 2
    /\ store[k].elems[2].t = "int"
    /\ Expired(store[k].elems[2].ms, now)

\* C33: a string key whose expiry has passed reads as a missing key: whichever
\* of GET and TYPE observes it first removes the entry, GET replies the null
\* bulk and TYPE replies none.
C33_ExpiredReadsAsMissing ==
    \A k \in Keys :
        (last.key = k /\ last.cmd \in {"GET", "TYPE"})
            => /\ ~ExpiredKey(k)
               /\ store[k] = Absent
                     => last.reply = IF last.cmd = "GET" THEN NullBulk
                                     ELSE Simple("none")

----------------------------------------------------------------------------
(* Properties of replication *)

\* a connection that has sent PSYNC is a replica of this master
Replicas == {r \in Conns : "PSYNC" \in Range(sent[r])}

\* this step executed a command that changed the keyspace
Mutating == store' # store /\ last'.cmd \in {"SET", "RPUSH", "LPUSH", "LPOP"}

\* C34: on a master, every executed mutating command is forwarded to every
\* registered replica, in the order of execution: the step that executes it
\* writes it to each replica.
C34_WritesForwarded ==
    [][Mutating => Replicas \subseteq Receivers(last')]_vars

----------------------------------------------------------------------------
(* Properties of the registries *)

\* C35: the queues of an XREAD BLOCK are registered as long as the call is
\* suspended and no longer: stream_queues holds queues of suspended calls
\* only, each under a key the call watches, and has no key with an empty list.
C35_XreadRegistryScoped ==
    \A k \in Keys :
        /\ \A c \in Range(stream_queues[k]) :
               pc[c] \in {"xread_wait", "xread_woken"} /\ k \in Watched(c)
        /\ k \in stream_keys <=> stream_queues[k] # <<>>

\* a blocked XREAD has ended, by data or by its timeout, and the registry is
\* empty again
C35_Witness ==
    /\ last.cmd \in {"XREAD_RESUME", "XREAD_TIMEOUT"}
    /\ stream_keys = {}
    /\ \A k \in Keys : stream_queues[k] = <<>>

\* C36: no wake-up is lost.  A blocking command that found no data is
\* registered in the step that looked, so no other command runs in between:
\* a client suspended in BLPOP on k has a getter in the queue of k, and a
\* client suspended in XREAD BLOCK has a queue under every stream it watches.
\* A later push to k wakes the first waiting getter, and a later XADD to a
\* watched stream wakes every client that watches it.
C36_NoLostWakeUp ==
    [][\A c \in Conns :
         /\ (pc[c] = "blpop_wait"
               => c \in Range(queues[blk[c].key].getters))'
         /\ (pc[c] = "xread_wait"
               => \A k \in Watched(c) : c \in Range(stream_queues[k]))'
         /\ (/\ pc[c] = "blpop_wait"
             /\ last'.cmd \in {"RPUSH", "LPUSH"} /\ last'.reply.t = "int"
             /\ last'.key = blk[c].key
             /\ Head(queues[blk[c].key].getters) = c)
               => /\ pc'[c] = "blpop_woken"
                  /\ PyStr(blk'[c].due) \in Range(store'[blk[c].key].elems)
         /\ (/\ pc[c] = "xread_wait"
             /\ last'.cmd = "XADD" /\ last'.reply.t = "bulk"
             /\ last'.key \in Watched(c))
               => pc'[c] = "xread_woken"]_vars

\* a client that found k1 empty and blocked was woken by a later push, and a
\* client that blocked in XREAD on k2 was woken by a later XADD
C36_Witness ==
    /\ pc["c1"] = "blpop_woken" /\ blk["c1"].due # ""
    /\ pc["c2"] = "xread_woken"

\* the elements at positions [max(start, 0), min(stop + 1, len)) of xs, with a
\* negative index counted from the end
Positions(xs, start, stop) ==
    LET len == Len(xs)
        s0 == IF start < 0 THEN len + start ELSE start
        e0 == IF stop < 0 THEN len + stop ELSE stop
        from == Max(s0, 0)
        to == Min(e0 + 1, len)
    IN  [i \in 1..Max(to - from, 0) |-> xs[from + i]]

\* C37: LRANGE k start stop replies the elements at positions
\* [max(start, 0), min(stop + 1, len)) after negative indices are counted from
\* the end, and the empty array for a missing key, for a start past the end
\* and for a start beyond the stop.  LRANGE changes nothing, so the state
\* after it is the one it was asked in.
C37_LrangePositions ==
    (last.cmd = "LRANGE" /\ IsListKey(last.key))
        => LET all == Whole(store[last.key])
               start == last.arg[1]
               stop == last.arg[2]
               s0 == IF start < 0 THEN Len(all) + start ELSE start
               e0 == IF stop < 0 THEN Len(all) + stop ELSE stop
           IN  /\ last.reply = Arr(Positions(all, start, stop))
               /\ (all = <<>> \/ s0 >= Len(all) \/ Max(s0, 0) > e0)
                     => last.reply = Arr(<<>>)

\* LRANGE has replied the two middle elements of a list of four
C37_Witness ==
    /\ last.cmd = "LRANGE" /\ last.arg = <<0 - 3, 2>>
    /\ Len(Whole(store["k1"])) = 4
    /\ last.reply = Arr(Positions(Whole(store["k1"]), 0 - 3, 2))
    /\ Len(last.reply.xs) = 2

----------------------------------------------------------------------------
(* Properties of the codec *)

\* the Python value a RESP value stands for: both kinds of string are a str,
\* null is None, an array is a list
RECURSIVE PyOf(_)
PyOf(v) ==
    CASE v.t \in {"simple", "bulk"} -> PyValue("str", v.s, 0, <<>>)
      [] v.t = "int" -> PyValue("int", <<>>, v.n, <<>>)
      [] v.t = "null" -> PyValue("none", <<>>, 0, <<>>)
      [] v.t = "array" -> PyValue("list", <<>>, 0, [i \in 1..Len(v.xs) |-> PyOf(v.xs[i])])

\* C38: RESP round trip.  Parsing what the encoder writes for a well-formed
\* value yields the value again and consumes exactly the encoded bytes.
C38_RoundTrip ==
    last.cmd = "RESP"
        => LET v == last.arg[1]
               r == last.arg[2]
           IN  /\ ~r.exc
               /\ r.val = PyOf(v)
               /\ r.pos = Len(Encode(v))

----------------------------------------------------------------------------
(* Properties of the read-only commands *)

ReadOnly == {"PING", "ECHO", "LRANGE", "LLEN", "TYPE", "XRANGE", "XREAD", "GET"}

\* the step is a read-only command that ran from call to reply (an XREAD
\* that does not wait)
ReadStep ==
    /\ last'.cmd \in ReadOnly
    /\ last'.c \in Conns
    /\ Idle(last'.c)
    /\ pc'[last'.c] \in {"idle", "closed"}

\* C39: read-only commands have no effect on shared state.  PING, ECHO,
\* LRANGE, LLEN, TYPE, XRANGE and an XREAD that does not block leave the
\* keyspace and both wait registries as they were; GET changes the keyspace
\* only by removing a key whose expiry has passed.
C39_ReadsFrame ==
    [][ReadStep =>
          /\ queues' = queues
          /\ stream_queues' = stream_queues
          /\ stream_keys' = stream_keys
          /\ \/ store' = store
             \/ /\ last'.cmd = "GET"
                /\ ExpiredKey(last'.key)
                /\ store' = [store EXCEPT ![last'.key] = Absent]]_vars

\* a GET has removed the expired k1 while a BLPOP and an XREAD are waiting
C39_Witness ==
    /\ last = Step("c1", "GET", "k1", NullBulk)
    /\ lastSet["k1"].set /\ lastSet["k1"].expiry # None
    /\ store["k1"] = Absent
    /\ now > lastSet["k1"].expiry
    /\ queues["k2"] # <<>>

----------------------------------------------------------------------------
(* Properties of key independence *)

\* c is suspended in BLPOP or XREAD BLOCK and none of its keys is k
BlockedOff(c, k) ==
    \/ pc[c] \in {"blpop_wait", "blpop_woken"} /\ blk[c].key # k
    \/ pc[c] \in {"xread_wait", "xread_woken"} /\ k \notin Watched(c)

WakeUps(rq, c) == Len(SelectSeq(rq, LAMBDA x : x = c))

\* C40: keys are independent.  A command that names key k leaves the entry
\* of every other key unchanged, and a push or an XADD on k neither wakes nor
\* delivers a value to a client blocked in BLPOP or XREAD BLOCK only on keys
\* other than k.
C40_KeysIndependent ==
    [][last'.key \in Keys =>
          /\ \A k \in Keys \ {last'.key} : store'[k] = store[k]
          /\ last'.cmd \in {"RPUSH", "LPUSH", "XADD"} =>
                /\ \A k \in Keys \ {last'.key} :
                      queues'[k] = queues[k] /\ stream_queues'[k] = stream_queues[k]
                /\ \A c \in Conns : BlockedOff(c, last'.key) =>
                      /\ pc'[c] = pc[c]
                      /\ blk'[c] = blk[c]
                      /\ xrd'[c] = xrd[c]
                      /\ WakeUps(ready', c) = WakeUps(ready, c)]_vars

\* an entry was added to the stream k2 while c1 waits in BLPOP on k1 and c2
\* in XREAD BLOCK on k1 only
C40_Witness ==
    /\ last.cmd = "XADD" /\ last.key = "k2" /\ last.reply.t = "bulk"
    /\ pc["c1"] = "blpop_wait" /\ blk["c1"].key = "k1"
    /\ pc["c2"] = "xread_wait" /\ Watched("c2") = {"k1"}
    /\ stream_queues["k1"] = <<"c2">>
    /\ queues["k1"].getters = <<"c1">>

====
